---- MODULE Spec2Model ----
(***************************************************************************)
(* Model of the parsing and aggregation code of three MultiQC modules:     *)
(*   multiqc/modules/bcl2fastq/bcl2fastq.py   (demultiplexing reports)     *)
(*   multiqc/modules/centrifuge/centrifuge.py (classification reports)     *)
(*   multiqc/modules/kat/kat.py               (k-mer reports)              *)
(*                                                                         *)
(* Conventions.                                                            *)
(*  - A Python dict is a sequence of [k, v] pairs in insertion order;      *)
(*    assigning to an existing key keeps its position.                     *)
(*  - A Python exception is the name of its class; "" is "none raised".    *)
(*  - A float is an exact rational [num, den] in lowest terms, den > 0;    *)
(*    rounding of IEEE doubles is not modelled.                            *)
(*  - Strings that the code concatenates are sequences of characters.      *)
(***************************************************************************)
EXTENDS Integers, Sequences, FiniteSets, TLC

VARIABLES
    \* ---- bcl2fastq: MultiqcModule.__init__ ----
    pc,                       \* position in __init__: "parse", "split", "raised"
    raised,                   \* the exception that left __init__, "" when none
    parsed,                   \* the files find_log_files has yielded so far
    log,                      \* records handed to log.warn / log.debug
    bcl2fastq_data,
    bcl2fastq_bylane,
    bcl2fastq_undetermined,
    bcl2fastq_bysample,
    bcl2fastq_bysample_lane,
    source_files,
    \* ---- safe_div called on its own ----
    sd_x, sd_y, sd_pc, sd_out,
    \* ---- centrifuge: the section extractors called on their own ----
    cf_content, cf_call, cf_out,
    \* ---- kat: parse_kat_report called on its own ----
    kat_content, kat_call, kat_out,
    \* ---- kat: MultiqcModule.__init__ ----
    kat_pc,                   \* "parse", "raised", "done"; "idle" outside a run
    kat_raised,               \* the exception that left __init__, "" when none
    kat_parsed,               \* the files find_log_files has yielded so far
    kat_data,
    \* ---- centrifuge: MultiqcModule.__init__ ----
    cfm_pc, cfm_raised, cfm_parsed,
    table_data, cls_lineage_data, els_lineage_data, kingdom_data, rank_data,
    top5_species_data, top5_class_data,
    \* ---- the collaborators of the three __init__ ----
    sample_names_ignore,      \* the keys ignore_samples drops
    written,                  \* names handed to write_data_file
    sections                  \* anchors handed to add_section

bclvars == <<pc, raised, parsed, log, bcl2fastq_data, bcl2fastq_bylane,
             bcl2fastq_undetermined, bcl2fastq_bysample, bcl2fastq_bysample_lane,
             source_files>>
sdvars == <<sd_x, sd_y, sd_pc, sd_out>>
cfvars == <<cf_content, cf_call, cf_out>>
katcallvars == <<kat_content, kat_call, kat_out>>
katvars == <<kat_pc, kat_raised, kat_parsed, kat_data>>
cfmvars == <<cfm_pc, cfm_raised, cfm_parsed, table_data, cls_lineage_data,
             els_lineage_data, kingdom_data, rank_data, top5_species_data,
             top5_class_data>>
outvars == <<sample_names_ignore, written, sections>>
newvars == <<katcallvars, katvars, cfmvars, outvars>>
vars == <<bclvars, sdvars, cfvars, newvars>>

(***************************************************************************)
(* Bounds of the model.                                                    *)
(***************************************************************************)
MaxFiles == 2      \* files yielded by find_log_files('bcl2fastq')
MaxNum == 5        \* |x|, |y| of a direct safe_div call
MaxLines == 4      \* lines of a centrifuge report handed to an extractor
MaxCols == 6       \* tab-separated fields of a captured row
MaxBlocks == 2     \* sections a KAT report is put together from

(***************************************************************************)
(* Python builtins                                                         *)
(***************************************************************************)
DictHas(d, k) == \E i \in 1..Len(d) : d[i].k = k
DictIdx(d, k) == CHOOSE i \in 1..Len(d) : d[i].k = k
DictGet(d, k) == d[DictIdx(d, k)].v
DictSet(d, k, v) ==
    IF DictHas(d, k) THEN [d EXCEPT ![DictIdx(d, k)] = [k |-> k, v |-> v]]
    ELSE Append(d, [k |-> k, v |-> v])
DictKeys(d) == {d[i].k : i \in 1..Len(d)}

Abs(n) == IF n < 0 THEN -n ELSE n
RECURSIVE GCD(_, _)
GCD(a, b) == IF b = 0 THEN a ELSE GCD(b, a % b)

\* float(n) / float(d) for d # 0, as an exact rational in lowest terms
Rat(n, d) ==
    LET g == GCD(Abs(n), Abs(d))
        s == IF d < 0 THEN -1 ELSE 1
    IN  [num |-> s * (n \div g), den |-> s * (d \div g)]
RatZero == [num |-> 0, den |-> 1]
RatTimes(r, n) == Rat(r.num * n, r.den)
\* the value of a dict key that was never assigned
Unset == [num |-> 0, den |-> 0]

(***************************************************************************)
(* bcl2fastq.safe_div                                                      *)
(***************************************************************************)
safe_div_unguarded(x, y) == IF y = 0 THEN [num |-> x, den |-> 1] ELSE Rat(x, y)

safe_div(x, y) == IF y = 0 THEN RatZero ELSE Rat(x, y)

(***************************************************************************)
(* Input: the demultiplexing reports (Stats.json) the model draws from     *)
(***************************************************************************)
RUN1 == <<"R", "U", "N", "1">>
RUN2 == <<"R", "U", "N", "2">>

IM(seq, m0) == [IndexSequence |-> seq, MismatchCounts0 |-> m0]
RM(q30, qs) == [YieldQ30 |-> q30, QualityScoreSum |-> qs]
Demux(s, n, y, hasIdx, idx, rms) ==
    [SampleName |-> s, NumberReads |-> n, Yield |-> y,
     hasIndexMetrics |-> hasIdx, IndexMetrics |-> idx, ReadMetrics |-> rms]
Undet(n, y, rms) == [NumberReads |-> n, Yield |-> y, ReadMetrics |-> rms]
NoUndet == Undet(0, 0, <<>>)
Conv(lane, demux, hasU, u) ==
    [LaneNumber |-> lane, DemuxResults |-> demux,
     hasUndetermined |-> hasU, Undetermined |-> u]
UB(lane, barcodes) == [Lane |-> lane, Barcodes |-> barcodes]
BC(b, c) == [barcode |-> b, count |-> c]

dA  == Demux("S1", 100, 1000, TRUE, <<IM("ACGT", 90)>>, <<RM(800, 3000)>>)
dA2 == Demux("S1", 40, 400, TRUE, <<IM("CCCC", 30)>>, <<RM(200, 1200)>>)
dZ  == Demux("S1", 0, 0, FALSE, <<>>, <<>>)
dB  == Demux("S2", 50, 500, TRUE, <<IM("", 20), IM("TTGG", 20)>>,
             <<RM(100, 1000), RM(300, 500)>>)
dY  == Demux("S2", 10, 0, TRUE, <<IM("GG", 10), IM("", 0)>>, <<>>)
uU  == Undet(7, 70, <<RM(35, 140)>>)

ConvSeqs ==
    { <<Conv("1", <<dA>>, FALSE, NoUndet)>>,
      <<Conv("1", <<dZ>>, FALSE, NoUndet)>>,
      <<Conv("1", <<dA, dB>>, TRUE, uU), Conv("2", <<dB>>, FALSE, NoUndet)>>,
      <<Conv("1", <<dB>>, TRUE, uU), Conv("1", <<dA2>>, FALSE, NoUndet)>>,
      <<Conv("2", <<dA2, dY>>, FALSE, NoUndet)>>,
      <<Conv("1", <<>>, FALSE, NoUndet)>>,
      <<Conv("1", <<dA, dA2>>, FALSE, NoUndet)>> }

UnknownSeqs ==
    { <<>>,
      <<UB("1", <<BC("GGGG", 9), BC("TTTT", 4)>>)>>,
      <<UB("1", <<BC("AAAA", 8), BC("CCCC", 7), BC("GGGG", 6), BC("TTTT", 5),
                  BC("ACAC", 4), BC("GTGT", 3)>>),
        UB("2", <<BC("AAAA", 3)>>)>> }

\* json.loads fails on a file whose content is not JSON
InvalidFile ==
    [valid |-> FALSE, RunId |-> RUN1, ConversionResults |-> <<>>, UnknownBarcodes |-> <<>>]

Files ==
    [valid : {TRUE}, RunId : {RUN1, RUN2}, ConversionResults : ConvSeqs,
     UnknownBarcodes : UnknownSeqs] \cup {InvalidFile}

(***************************************************************************)
(* bcl2fastq.MultiqcModule.parse_file_as_json                              *)
(***************************************************************************)
\* 'L{}'.format(conversionResult["LaneNumber"])
LaneName(n) == <<"L", n>>

prepend_runid_lane_only(runId, rest) == rest

prepend_runid(runId, rest) == runId \o <<" ", "-", " ">> \o rest

LogRec(level, msg, key, sample) ==
    [level |-> level, msg |-> msg, key |-> key, sample |-> sample]

NewLane ==
    [total |-> 0, total_yield |-> 0, perfectIndex |-> 0, samples |-> <<>>,
     yieldQ30 |-> 0, qscore_sum |-> 0, unknown_barcodes |-> <<>>,
     percent_Q30 |-> Unset, percent_perfectIndex |-> Unset, mean_qscore |-> Unset]

\* filename is <<fn>>; the "undetermined" record has no filename key: <<>>
NewSample(filename) ==
    [total |-> 0, total_yield |-> 0, perfectIndex |-> 0, barcode |-> "",
     filename |-> filename, yieldQ30 |-> 0, qscore_sum |-> 0,
     percent_Q30 |-> Unset, percent_perfectIndex |-> Unset, mean_qscore |-> Unset]

\* for indexMetric in demuxResult["IndexMetrics"]
RECURSIVE FoldIndexMetrics(_, _)
FoldIndexMetrics(ims, acc) ==
    IF ims = <<>> THEN acc
    ELSE FoldIndexMetrics(Tail(ims),
            [barcode |-> Head(ims).IndexSequence,
             perfectIndex |-> acc.perfectIndex + Head(ims).MismatchCounts0])

\* for readMetric in ...["ReadMetrics"]
RECURSIVE FoldReadMetrics(_, _)
FoldReadMetrics(rms, acc) ==
    IF rms = <<>> THEN acc
    ELSE FoldReadMetrics(Tail(rms),
            [yieldQ30 |-> acc.yieldQ30 + Head(rms).YieldQ30,
             qscore_sum |-> acc.qscore_sum + Head(rms).QualityScoreSum])

\* one pass of the loop over DemuxResults; A = [lane, log]
ParseDemux(A, d, uniq, filename) ==
    LET L  == A.lane
        dup == DictHas(L.samples, d.SampleName)
        im == IF d.hasIndexMetrics
              THEN FoldIndexMetrics(d.IndexMetrics, [barcode |-> "", perfectIndex |-> 0])
              ELSE [barcode |-> "", perfectIndex |-> 0]
        rm == FoldReadMetrics(d.ReadMetrics, [yieldQ30 |-> 0, qscore_sum |-> 0])
        s  == [NewSample(filename) EXCEPT
                 !.total = @ + d.NumberReads,
                 !.total_yield = @ + d.Yield,
                 !.barcode = im.barcode,
                 !.perfectIndex = @ + im.perfectIndex,
                 !.yieldQ30 = @ + rm.yieldQ30,
                 !.qscore_sum = @ + rm.qscore_sum]
    IN  [lane |-> [L EXCEPT
                 !.total = @ + d.NumberReads,
                 !.total_yield = @ + d.Yield,
                 !.perfectIndex = @ + im.perfectIndex,
                 !.yieldQ30 = @ + rm.yieldQ30,
                 !.qscore_sum = @ + rm.qscore_sum,
                 !.samples = DictSet(@, d.SampleName, s)],
         log |-> IF dup
                 THEN Append(A.log, LogRec("debug", "duplicate_sample", uniq, d.SampleName))
                 ELSE A.log]

RECURSIVE FoldDemux(_, _, _, _)
FoldDemux(ds, A, uniq, filename) ==
    IF ds = <<>> THEN A
    ELSE FoldDemux(Tail(ds), ParseDemux(A, Head(ds), uniq, filename), uniq, filename)

\* if "Undetermined" in conversionResult: ...
AddUndetermined(L, cr) ==
    IF ~cr.hasUndetermined THEN L
    ELSE LET rm == FoldReadMetrics(cr.Undetermined.ReadMetrics,
                                   [yieldQ30 |-> 0, qscore_sum |-> 0])
         IN  [L EXCEPT !.samples = DictSet(@, "undetermined",
                 [NewSample(<<>>) EXCEPT
                    !.total = cr.Undetermined.NumberReads,
                    !.total_yield = cr.Undetermined.Yield,
                    !.yieldQ30 = rm.yieldQ30,
                    !.qscore_sum = rm.qscore_sum])]

\* one pass of the loop over ConversionResults, keeping what the lane already
\* holds instead of starting it afresh
ParseConversionResultMerging(B, cr, runId, filename) ==
    LET lane == LaneName(cr.LaneNumber)
        uniq == prepend_runid(runId, lane)
        dup  == DictHas(B.run_data, lane)
        log1 == IF dup THEN Append(B.log, LogRec("debug", "duplicate_lane", uniq, ""))
                ELSE B.log
        start == IF dup THEN DictGet(B.run_data, lane) ELSE NewLane
        A    == FoldDemux(cr.DemuxResults, [lane |-> start, log |-> log1], uniq, filename)
    IN  [run_data |-> DictSet(B.run_data, lane, AddUndetermined(A.lane, cr)),
         log |-> A.log]

\* one pass of the loop over ConversionResults; B = [run_data, log]
ParseConversionResult(B, cr, runId, filename) ==
    LET lane == LaneName(cr.LaneNumber)
        uniq == prepend_runid(runId, lane)
        log1 == IF DictHas(B.run_data, lane)
                THEN Append(B.log, LogRec("debug", "duplicate_lane", uniq, ""))
                ELSE B.log
        A    == FoldDemux(cr.DemuxResults, [lane |-> NewLane, log |-> log1], uniq, filename)
    IN  [run_data |-> DictSet(B.run_data, lane, AddUndetermined(A.lane, cr)),
         log |-> A.log]

RECURSIVE FoldConversionResults(_, _, _, _)
FoldConversionResults(crs, B, runId, filename) ==
    IF crs = <<>> THEN B
    ELSE FoldConversionResults(Tail(crs),
            ParseConversionResult(B, Head(crs), runId, filename), runId, filename)

NASlot == [barcode |-> "N/A", count |-> 0]

\* the five slots "1".."5" of run_data[lane]["unknown_barcodes"]
UnknownSlots(barcodes) ==
    [i \in 1..5 |-> IF i <= Len(barcodes) THEN barcodes[i] ELSE NASlot]

\* the loop over UnknownBarcodes; run_data[lane] raises KeyError for a lane that
\* no ConversionResults entry has made.  C = [run_data, err]
RECURSIVE FoldUnknownBarcodes(_, _)
FoldUnknownBarcodes(ubs, C) ==
    IF ubs = <<>> \/ C.err # "" THEN C
    ELSE LET lane == LaneName(Head(ubs).Lane)
         IN  IF ~DictHas(C.run_data, lane)
             THEN [C EXCEPT !.err = "KeyError"]
             ELSE FoldUnknownBarcodes(Tail(ubs),
                    [C EXCEPT !.run_data = DictSet(@, lane,
                        [DictGet(C.run_data, lane) EXCEPT
                            !.unknown_barcodes = UnknownSlots(Head(ubs).Barcodes)])])

\* "Calculate Percents and averages"
WithPercents(d) ==
    [d EXCEPT
       !.percent_Q30 = RatTimes(safe_div(d.yieldQ30, d.total_yield), 100),
       !.percent_perfectIndex = RatTimes(safe_div(d.perfectIndex, d.total), 100),
       !.mean_qscore = safe_div(d.qscore_sum, d.total_yield)]

\* (<<>> \o ... keeps the lists of lanes and of samples sequences)
CalculatePercents(run_data) ==
    <<>> \o [i \in 1..Len(run_data) |->
        LET L == WithPercents(run_data[i].v)
        IN  [k |-> run_data[i].k,
             v |-> [L EXCEPT !.samples =
                      <<>> \o [j \in 1..Len(L.samples) |->
                          [k |-> L.samples[j].k, v |-> WithPercents(L.samples[j].v)]]]]]

\* myfile = [f |-> content, fn |-> name]; the result is the new bcl2fastq_data, the
\* new log and the exception that left the method
\* a variant that lets the ValueError of json.loads out
NotJsonRaising(data, lg) == [data |-> data, err |-> "ValueError", log |-> lg]

\* except ValueError: log.warn('Could not parse file as json: ...'); return
NotJson(data, lg) ==
    [data |-> data, err |-> "", log |-> Append(lg, LogRec("warn", "not_json", <<>>, ""))]

parse_file_as_json(data, lg, myfile) ==
    LET content == myfile.f IN
    IF ~content.valid THEN NotJson(data, lg)
    ELSE
    LET runId == content.RunId
        data1 == IF DictHas(data, runId) THEN data ELSE DictSet(data, runId, <<>>)
        B == FoldConversionResults(content.ConversionResults,
                [run_data |-> DictGet(data1, runId), log |-> lg], runId, <<myfile.fn>>)
        C == FoldUnknownBarcodes(content.UnknownBarcodes,
                [run_data |-> B.run_data, err |-> ""])
    IN  IF C.err # ""
        THEN [data |-> DictSet(data1, runId, C.run_data), log |-> B.log, err |-> C.err]
        ELSE [data |-> DictSet(data1, runId, CalculatePercents(C.run_data)),
              log |-> B.log, err |-> ""]

(***************************************************************************)
(* bcl2fastq.MultiqcModule.split_data_by_lane_and_sample                   *)
(***************************************************************************)
\* the string "NA" of samples.get("undetermined", {}).get("total", "NA")
NA == -1

\* safe_div(float(n) / float(d)): the quotient is evaluated first and raises
\* ZeroDivisionError for d = 0; safe_div is then called with one argument for its
\* two parameters, which raises TypeError
safe_div_of_quotient(n, d) ==
    IF d = 0 THEN [err |-> "ZeroDivisionError", val |-> Unset]
    ELSE [err |-> "TypeError", val |-> Unset]

NewBySample ==
    [total |-> 0, total_yield |-> 0, perfectIndex |-> 0, yieldQ30 |-> 0,
     qscore_sum |-> 0, barcode |-> "",
     percent_Q30 |-> Unset, percent_perfectIndex |-> Unset, mean_qscore |-> Unset]

\* one pass of the loop over the samples of a lane.
\* S = [bylane, undetermined, bysample, bysample_lane, source_files, err]
SplitSample(S, lane, sample, d) ==
    LET old == IF DictHas(S.bysample, sample) THEN DictGet(S.bysample, sample)
               ELSE NewBySample
        perLane == IF DictHas(S.bysample_lane, sample)
                   THEN DictGet(S.bysample_lane, sample) ELSE <<>>
        sums == [old EXCEPT
                   !.total = @ + d.total,
                   !.total_yield = @ + d.total_yield,
                   !.perfectIndex = @ + d.perfectIndex,
                   !.yieldQ30 = @ + d.yieldQ30,
                   !.qscore_sum = @ + d.qscore_sum,
                   !.barcode = d.barcode]
        S1 == [S EXCEPT
                 !.bysample_lane = DictSet(@, sample, DictSet(perLane, lane, d.total)),
                 !.bysample = DictSet(@, sample, sums)]
        q30 == safe_div_of_quotient(sums.yieldQ30, sums.total_yield)
        pfi == safe_div_of_quotient(sums.perfectIndex, sums.total)
        mqs == safe_div_of_quotient(sums.qscore_sum, sums.total_yield)
        src == IF DictHas(S.source_files, sample) THEN DictGet(S.source_files, sample)
               ELSE <<>>
    IN  IF q30.err # "" THEN [S1 EXCEPT !.err = q30.err]
        ELSE IF pfi.err # ""
        THEN [S1 EXCEPT !.err = pfi.err,
                !.bysample = DictSet(@, sample,
                    [sums EXCEPT !.percent_Q30 = RatTimes(q30.val, 100)])]
        ELSE IF mqs.err # ""
        THEN [S1 EXCEPT !.err = mqs.err,
                !.bysample = DictSet(@, sample,
                    [sums EXCEPT !.percent_Q30 = RatTimes(q30.val, 100),
                                 !.percent_perfectIndex = RatTimes(pfi.val, 100)])]
        ELSE [S1 EXCEPT
                !.bysample = DictSet(@, sample,
                    [sums EXCEPT !.percent_Q30 = RatTimes(q30.val, 100),
                                 !.percent_perfectIndex = RatTimes(pfi.val, 100),
                                 !.mean_qscore = mqs.val]),
                !.source_files =
                    IF sample # "undetermined"
                    THEN DictSet(@, sample, src \o d.filename)
                    ELSE @]

RECURSIVE FoldSamples(_, _, _)
FoldSamples(samples, S, lane) ==
    IF samples = <<>> \/ S.err # "" THEN S
    ELSE FoldSamples(Tail(samples),
            SplitSample(S, lane, Head(samples).k, Head(samples).v), lane)

\* one pass of the loop over the lanes of a run
SplitLane(S, runId, lane, L) ==
    LET uniqLaneName == prepend_runid(runId, lane)
        und == IF DictHas(L.samples, "undetermined")
               THEN DictGet(L.samples, "undetermined").total ELSE NA
        S1 == [S EXCEPT !.bylane = DictSet(@, uniqLaneName,
                 [total |-> L.total, total_yield |-> L.total_yield,
                  perfectIndex |-> L.perfectIndex, undetermined |-> und,
                  yieldQ30 |-> L.yieldQ30, qscore_sum |-> L.qscore_sum,
                  percent_Q30 |-> L.percent_Q30,
                  percent_perfectIndex |-> L.percent_perfectIndex,
                  mean_qscore |-> L.mean_qscore])]
    IN  \* unknown_barcodes['1'] of a lane no UnknownBarcodes entry named
        IF L.unknown_barcodes = <<>> THEN [S1 EXCEPT !.err = "KeyError"]
        ELSE FoldSamples(L.samples,
                [S1 EXCEPT !.undetermined = DictSet(@, uniqLaneName, L.unknown_barcodes)],
                lane)

RECURSIVE FoldLanes(_, _, _)
FoldLanes(lanes, S, runId) ==
    IF lanes = <<>> \/ S.err # "" THEN S
    ELSE FoldLanes(Tail(lanes), SplitLane(S, runId, Head(lanes).k, Head(lanes).v), runId)

RECURSIVE FoldRuns(_, _)
FoldRuns(runs, S) ==
    IF runs = <<>> \/ S.err # "" THEN S
    ELSE FoldRuns(Tail(runs), FoldLanes(Head(runs).v, S, Head(runs).k))

split_data_by_lane_and_sample(data) ==
    FoldRuns(data, [bylane |-> <<>>, undetermined |-> <<>>, bysample |-> <<>>,
                    bysample_lane |-> <<>>, source_files |-> <<>>, err |-> ""])

(***************************************************************************)
(* bcl2fastq.MultiqcModule.__init__, up to the fold                        *)
(***************************************************************************)
SdIdle == sd_x = 0 /\ sd_y = 0 /\ sd_pc = "idle" /\ sd_out = RatZero
CfIdle == cf_content = <<>> /\ cf_call = <<"idle", "">> /\ cf_out = [status |-> "idle", err |-> "", val |-> <<>>]
KatCallIdle == kat_content = <<>> /\ kat_call = "idle" /\ kat_out = [err |-> "", val |-> <<>>]
KatIdle == kat_pc = "idle" /\ kat_raised = "" /\ kat_parsed = <<>> /\ kat_data = <<>>
CfmFresh ==
    /\ cfm_raised = "" /\ cfm_parsed = <<>>
    /\ table_data = <<>> /\ cls_lineage_data = <<>> /\ els_lineage_data = <<>>
    /\ kingdom_data = <<>> /\ rank_data = <<>>
    /\ top5_species_data = <<>> /\ top5_class_data = <<>>
CfmIdle == cfm_pc = "idle" /\ CfmFresh
OutFresh ==
    /\ sample_names_ignore = [lanes |-> {}, names |-> {}]
    /\ written = {}
    /\ sections = {}
NewIdle == KatCallIdle /\ KatIdle /\ CfmIdle /\ OutFresh

BclFresh ==
    /\ raised = ""
    /\ parsed = <<>>
    /\ log = <<>>
    /\ bcl2fastq_data = <<>>
    /\ bcl2fastq_bylane = <<>>
    /\ bcl2fastq_undetermined = <<>>
    /\ bcl2fastq_bysample = <<>>
    /\ bcl2fastq_bysample_lane = <<>>
    /\ source_files = <<>>
BclIdle == pc = "idle" /\ BclFresh

Init ==
    /\ pc = "parse"
    /\ BclFresh
    /\ SdIdle
    /\ CfIdle
    /\ NewIdle

\* for myfile in self.find_log_files('bcl2fastq'): self.parse_file_as_json(myfile)
ParseFile(f) ==
    /\ pc = "parse"
    /\ Len(parsed) < MaxFiles
    /\ LET r == parse_file_as_json(bcl2fastq_data, log,
                                   [f |-> f, fn |-> Len(parsed) + 1])
       IN  /\ bcl2fastq_data' = r.data
           /\ log' = r.log
           /\ raised' = r.err
           /\ pc' = IF r.err # "" THEN "parse_raised" ELSE "parse"
    /\ parsed' = Append(parsed, f)
    /\ UNCHANGED <<bcl2fastq_bylane, bcl2fastq_undetermined, bcl2fastq_bysample,
                   bcl2fastq_bysample_lane, source_files, sdvars, cfvars, newvars>>

\* self.split_data_by_lane_and_sample(), once find_log_files is exhausted
Split ==
    /\ pc = "parse"
    /\ LET S == split_data_by_lane_and_sample(bcl2fastq_data)
       IN  /\ bcl2fastq_bylane' = S.bylane
           /\ bcl2fastq_undetermined' = S.undetermined
           /\ bcl2fastq_bysample' = S.bysample
           /\ bcl2fastq_bysample_lane' = S.bysample_lane
           /\ source_files' = S.source_files
           /\ raised' = S.err
           /\ pc' = IF S.err # "" THEN "split_raised" ELSE "split"
    /\ UNCHANGED <<parsed, log, bcl2fastq_data, sdvars, cfvars, newvars>>

Next ==
    \/ \E f \in Files : ParseFile(f)
    \/ Split

Spec == Init /\ [][Next]_vars

(***************************************************************************)
(* safe_div called on its own, on integers of either sign                  *)
(***************************************************************************)
InitSafeDiv ==
    /\ BclIdle
    /\ CfIdle
    /\ NewIdle
    /\ sd_x \in -MaxNum..MaxNum
    /\ sd_y \in -MaxNum..MaxNum
    /\ sd_pc = "call"
    /\ sd_out = RatZero

SafeDivCall ==
    /\ sd_pc = "call"
    /\ sd_out' = safe_div(sd_x, sd_y)
    /\ sd_pc' = "done"
    /\ UNCHANGED <<sd_x, sd_y, bclvars, cfvars, newvars>>

NextSafeDiv == SafeDivCall

SpecSafeDiv == InitSafeDiv /\ [][NextSafeDiv]_vars

(***************************************************************************)
(* centrifuge: text of a report                                            *)
(*                                                                         *)
(* A line is the sequence of its tab-separated cells; "" is <<>>.  A cell  *)
(* is one of                                                               *)
(*   empty   ""                                                            *)
(*   hdr     a section header h, e.g. "Kingdom Perc"                       *)
(*   taxon   "<pre>(id:<id>; rank:<rank>)"                                 *)
(*   taxid   "<pre>(taxid <id>)"                                           *)
(*   num     the decimal numeral of the integer n                          *)
(* where pre is a sequence of characters.                                  *)
(***************************************************************************)
Cell(k, h, pre, id, rank, n) ==
    [k |-> k, h |-> h, pre |-> pre, id |-> id, rank |-> rank, n |-> n]
EmptyCell == Cell("empty", "", <<>>, "", "", 0)
Hdr(h) == Cell("hdr", h, <<>>, "", "", 0)
Taxon(pre, id, rank) == Cell("taxon", "", pre, id, rank, 0)
TaxId(pre, id) == Cell("taxid", "", pre, id, "", 0)
Num(n) == Cell("num", "", <<>>, "", "", n)

\* str.strip() of a line: leading and trailing tabs go
RECURSIVE LStrip(_)
LStrip(l) == IF l # <<>> /\ Head(l).k = "empty" THEN LStrip(Tail(l)) ELSE l
RECURSIVE RStrip(_)
RStrip(l) ==
    IF l # <<>> /\ l[Len(l)].k = "empty" THEN RStrip(SubSeq(l, 1, Len(l) - 1)) ELSE l
Strip(l) == RStrip(LStrip(l))

\* str.split('\t'): never empty, "" gives ['']
SplitTabs(l) == IF l = <<>> THEN <<EmptyCell>> ELSE l

\* line.startswith(header)
StartsWith(l, header) == l # <<>> /\ l[1].k = "hdr" /\ l[1].h = header

\* str.lower(), str.upper() on the characters the model uses
LowerChar(c) == CASE c = "A" -> "a" [] c = "B" -> "b" [] OTHER -> c
UpperChar(c) == CASE c = "a" -> "A" [] c = "b" -> "B" [] OTHER -> c
LowerStr(t) == [i \in 1..Len(t) |-> LowerChar(t[i])]
RECURSIVE LStripSpaces(_)
LStripSpaces(t) == IF t # <<>> /\ Head(t) = " " THEN LStripSpaces(Tail(t)) ELSE t
RECURSIVE RStripSpaces(_)
RStripSpaces(t) ==
    IF t # <<>> /\ t[Len(t)] = " " THEN RStripSpaces(SubSeq(t, 1, Len(t) - 1)) ELSE t
StripSpaces(t) == RStripSpaces(LStripSpaces(t))

\* str.upper() and str.replace(" ", "_") on the rank names the model uses
UpperRank(r) ==
    CASE r = "root" -> "ROOT" [] r = "superkingdom" -> "SUPERKINGDOM"
      [] r = "kingdom" -> "KINGDOM" [] r = "phylum" -> "PHYLUM"
      [] r = "class" -> "CLASS" [] r = "order" -> "ORDER"
      [] r = "family" -> "FAMILY" [] r = "genus" -> "GENUS"
      [] r = "subgenus" -> "SUBGENUS" [] r = "species" -> "SPECIES"
      [] r = "subspecies" -> "SUBSPECIES" [] r = "no rank" -> "NO RANK"
      [] r = "strain" -> "STRAIN" [] OTHER -> r
SpacesToUnderscores(r) == IF r = "NO RANK" THEN "NO_RANK" ELSE r
LowerRank(r) ==
    CASE r = "ROOT" -> "root" [] r = "SUPERKINGDOM" -> "superkingdom"
      [] r = "KINGDOM" -> "kingdom" [] r = "PHYLUM" -> "phylum"
      [] r = "CLASS" -> "class" [] r = "ORDER" -> "order"
      [] r = "FAMILY" -> "family" [] r = "GENUS" -> "genus"
      [] r = "SUBGENUS" -> "subgenus" [] r = "SPECIES" -> "species"
      [] r = "SUBSPECIES" -> "subspecies" [] r = "NO_RANK" -> "no_rank"
      [] OTHER -> r

\* int(s) and float(s): the numeral's value, ValueError for any other text
ToNumber(c) == IF c.k = "num" THEN [err |-> "", val |-> c.n]
               ELSE [err |-> "ValueError(not a number)", val |-> 0]

(***************************************************************************)
(* centrifuge.TaxRank                                                      *)
(***************************************************************************)
\* a Python object: an Enum member has the attributes name and value, a number
\* has neither
Member(name, value) == [type |-> "TaxRank", name |-> name, value |-> value]
Number(value) == [type |-> "number", name |-> "", value |-> value]

TaxRank ==
    << Member("ROOT", Rat(0, 1)), Member("SUPERKINGDOM", Rat(1, 1)),
       Member("KINGDOM", Rat(2, 1)), Member("PHYLUM", Rat(3, 1)),
       Member("CLASS", Rat(4, 1)), Member("ORDER", Rat(5, 1)),
       Member("FAMILY", Rat(6, 1)), Member("GENUS", Rat(7, 1)),
       Member("SUBGENUS", Rat(15, 2)), Member("SPECIES", Rat(8, 1)),
       Member("SUBSPECIES", Rat(17, 2)), Member("NO_RANK", Rat(9, 1)) >>
TaxRankMember(name) == TaxRank[CHOOSE i \in 1..Len(TaxRank) : TaxRank[i].name = name]
IsTaxRankName(name) == \E i \in 1..Len(TaxRank) : TaxRank[i].name = name

\* TaxRank.get(item): cls.__members__.get(item, alt).value with alt = ROOT, which
\* is the member's value, a number.  (The default alt=cls.ROOT in the signature
\* is evaluated while the class body runs, where no name cls is bound; the body
\* is modelled as it runs once called with alt = ROOT.)
TaxRank_get(item) ==
    IF IsTaxRankName(item) THEN Number(TaxRankMember(item).value)
    ELSE Number(TaxRankMember("ROOT").value)

\* obj.value and obj.name; AttributeError on a number
AttrValue(obj) == IF obj.type = "TaxRank" THEN [err |-> "", val |-> obj.value]
                  ELSE [err |-> "AttributeError", val |-> Rat(0, 1)]
AttrName(obj) == IF obj.type = "TaxRank" THEN [err |-> "", val |-> obj.name]
                 ELSE [err |-> "AttributeError", val |-> ""]

(***************************************************************************)
(* centrifuge.MultiqcModule.parse_taxon                                    *)
(***************************************************************************)
TaxonResult(err, name, id, rank, rank_id) ==
    [err |-> err, name |-> name, id |-> id, rank |-> rank, rank_id |-> rank_id]
TaxonError(err) == TaxonResult(err, <<>>, <<>>, "", Rat(0, 1))

\* parts[0]: the text before the first "("; the whole text when there is none
BeforeParen(c) ==
    CASE c.k \in {"taxon", "taxid"} -> c.pre
      [] c.k = "hdr" -> <<"h", "d", "r">>
      [] c.k = "num" -> <<"1">>
      [] OTHER -> <<>>

\* hasRank: a rank was passed (rank is then the member); else the rank is parsed
parse_taxon(c, hasRank, rank) ==
    LET cut  == IF BeforeParen(c) = <<>> THEN <<>>
                ELSE SubSeq(BeforeParen(c), 1, Len(BeforeParen(c)) - 1)
        low  == LowerStr(StripSpaces(cut))
    IN  IF low = <<>> THEN TaxonError("IndexError")         \* name[0]
        ELSE
        LET name == <<UpperChar(low[1])>> \o Tail(low) IN
        IF c.k \notin {"taxon", "taxid"} THEN TaxonError("IndexError")   \* parts[1]
        ELSE IF hasRank
        THEN \* id = parts[1][3:-1]
             TaxonResult("", name,
                IF c.k = "taxid" THEN <<"id ", c.id>> ELSE <<c.id, "; rank:", c.rank>>,
                LowerRank(rank.name), rank.value)
        ELSE IF c.k = "taxid" THEN TaxonError("IndexError")  \* id_part.split(':')[1]
        ELSE LET got == TaxRank_get(SpacesToUnderscores(UpperRank(c.rank)))
                 rank_id == AttrValue(got)
             IN  IF rank_id.err # "" THEN TaxonError(rank_id.err)
                 ELSE TaxonResult("", name, <<c.id>>, c.rank, rank_id.val)

(***************************************************************************)
(* centrifuge.MultiqcModule.extract_lineage / extract_kingdom / extract_t5 *)
(***************************************************************************)
\* the scan loop, the same in the three extractors.
\* T = [desc_str, perc_str, count_str, in_section]
ScanLine(T, l, header) ==
    LET line == Strip(l)
        T1 == CASE T.in_section = 1 -> [T EXCEPT !.desc_str = line, !.in_section = 2]
                [] T.in_section = 2 -> [T EXCEPT !.perc_str = line, !.in_section = 3]
                [] T.in_section = 3 -> [T EXCEPT !.count_str = line, !.in_section = 0]
                [] OTHER -> T
    IN  IF StartsWith(line, header) THEN [T1 EXCEPT !.in_section = 1] ELSE T1

RECURSIVE ScanFrom(_, _, _)
ScanFrom(content, T, header) ==
    IF content = <<>> THEN T
    ELSE CHOOSE r \in {ScanFrom(Tail(content), t, header) :
                          t \in {ScanLine(T, Head(content), header)}} : TRUE

Scan(content, header) ==
    ScanFrom(content,
        [desc_str |-> <<>>, perc_str |-> <<>>, count_str |-> <<>>, in_section |-> 0],
        header)

\* a check that leaves the count row out
ColumnCheckNoCount(desc_parts, perc_parts, count_parts) ==
    IF Len(desc_parts) = 0 \/ Len(perc_parts) = 0 \/ Len(count_parts) = 0
    THEN "ValueError(section not found)"
    ELSE IF Len(desc_parts) # Len(perc_parts)
    THEN "ValueError(column count mismatch)"
    ELSE ""

\* the two checks on the split rows, the same in the three extractors
ColumnCheck(desc_parts, perc_parts, count_parts) ==
    IF Len(desc_parts) = 0 \/ Len(perc_parts) = 0 \/ Len(count_parts) = 0
    THEN "ValueError(section not found)"
    ELSE IF Len(desc_parts) # Len(perc_parts) \/ Len(desc_parts) # Len(count_parts)
    THEN "ValueError(column count mismatch)"
    ELSE ""

Returned(val) == [status |-> "returned", err |-> "", val |-> val]
Raised(err) == [status |-> "raised", err |-> err, val |-> <<>>]

mapping == [i \in 0..4 |-> <<"first", "second", "third", "fourth", "fifth">>[i + 1]]
NACell == Cell("text", "N/A", <<>>, "", "", 0)

\* the loop over the columns of extract_t5, from column i (0-based) on.
\* D = [data, err]; data maps a slot of `mapping` to its _name and _count
RECURSIVE T5Columns(_, _, _, _)
T5Columns(i, desc_parts, perc_parts, D) ==
    IF i >= Len(desc_parts) \/ D.err # "" THEN D
    ELSE IF i \notin DOMAIN mapping THEN [D EXCEPT !.err = "KeyError"]
    ELSE LET f == ToNumber(perc_parts[i + 1])
         IN  IF f.err # "" THEN [D EXCEPT !.err = f.err]
             ELSE T5Columns(i + 1, desc_parts, perc_parts,
                    [D EXCEPT !.data = DictSet(@, mapping[i],
                        [name |-> desc_parts[i + 1], count |-> f.val])])

\* for i in range(len(desc_parts), 5)
RECURSIVE T5Pad(_, _)
T5Pad(i, data) ==
    IF i >= 5 THEN data
    ELSE T5Pad(i + 1, DictSet(data, mapping[i], [name |-> NACell, count |-> 0]))

extract_t5(content, header) ==
    LET T == Scan(content, header)
        desc_parts == SplitTabs(T.desc_str)
        perc_parts == SplitTabs(T.perc_str)
        count_parts == SplitTabs(T.count_str)
        chk == ColumnCheck(desc_parts, perc_parts, count_parts)
    IN  IF chk # "" THEN Raised(chk)
        ELSE LET D == T5Columns(0, desc_parts, perc_parts, [data |-> <<>>, err |-> ""])
             IN  IF D.err # "" THEN Raised(D.err)
                 ELSE Returned(IF Len(desc_parts) < 5
                               THEN T5Pad(Len(desc_parts), D.data) ELSE D.data)

\* the loop over the columns of extract_lineage, from column i (0-based) on
RECURSIVE LineageColumns(_, _, _, _)
LineageColumns(i, desc_parts, count_parts, D) ==
    IF i >= Len(desc_parts) \/ D.err # "" THEN D
    ELSE LET t == parse_taxon(desc_parts[i + 1], FALSE, TaxRankMember("ROOT"))
             c == ToNumber(count_parts[i + 1])
             p == IF i = 0 THEN c ELSE ToNumber(count_parts[i])
             key == AttrName(TaxRank_get(UpperRank(t.rank)))
         IN  IF t.err # "" THEN [D EXCEPT !.err = t.err]
             ELSE IF c.err # "" THEN [D EXCEPT !.err = c.err]
             ELSE IF p.err # "" THEN [D EXCEPT !.err = p.err]
             ELSE IF key.err # "" THEN [D EXCEPT !.err = key.err]
             ELSE LineageColumns(i + 1, desc_parts, count_parts,
                    [D EXCEPT !.data = DictSet(@, LowerRank(key.val),
                        IF i = 0 THEN c.val ELSE c.val - p.val)])

extract_lineage(content, header) ==
    LET T == Scan(content, header)
        desc_parts == SplitTabs(T.desc_str)
        perc_parts == SplitTabs(T.perc_str)
        count_parts == SplitTabs(T.count_str)
        chk == ColumnCheck(desc_parts, perc_parts, count_parts)
    IN  IF chk # "" THEN Raised(chk)
        ELSE LET D == LineageColumns(0, desc_parts, count_parts,
                                     [data |-> <<>>, err |-> ""])
             IN  IF D.err # "" THEN Raised(D.err) ELSE Returned(D.data)

\* the loop over the columns of extract_kingdom, from column i (0-based) on
RECURSIVE KingdomColumns(_, _, _, _)
KingdomColumns(i, desc_parts, count_parts, D) ==
    IF i >= Len(desc_parts) \/ D.err # "" THEN D
    ELSE LET t == parse_taxon(desc_parts[i + 1], TRUE, TaxRankMember("KINGDOM"))
             c == ToNumber(count_parts[i + 1])
         IN  IF t.err # "" THEN [D EXCEPT !.err = t.err]
             ELSE IF c.err # "" THEN [D EXCEPT !.err = c.err]
             ELSE KingdomColumns(i + 1, desc_parts, count_parts,
                    [D EXCEPT !.data = DictSet(@, LowerStr(t.name), c.val)])

extract_kingdom(content) ==
    LET T == Scan(content, "Kingdom Perc")
        desc_parts == SplitTabs(T.desc_str)
        perc_parts == SplitTabs(T.perc_str)
        count_parts == SplitTabs(T.count_str)
        chk == ColumnCheck(desc_parts, perc_parts, count_parts)
    IN  IF chk # "" THEN Raised(chk)
        ELSE LET D == KingdomColumns(0, desc_parts, count_parts,
                                     [data |-> <<>>, err |-> ""])
             IN  IF D.err # "" THEN Raised(D.err) ELSE Returned(D.data)

(***************************************************************************)
(* centrifuge: the extractors and parse_taxon called on their own, on      *)
(* report texts of up to MaxLines lines                                    *)
(***************************************************************************)
\* column i of a row of names: "a (taxid 1)", "aa (taxid 1)", ...
NameRow(k) == [i \in 1..k |-> TaxId([j \in 1..i |-> "a"] \o <<" ">>, "1")]
NumRow(k) == [i \in 1..k |-> Num(10 * i)]
LineageRow ==
    << Taxon(<<"A", " ">>, "1", "root"), Taxon(<<"B", " ">>, "2", "superkingdom"),
       Taxon(<<"a", "B", " ">>, "3", "kingdom"), Taxon(<<"b", "A", " ">>, "4", "phylum"),
       Taxon(<<"b", "b", " ">>, "5", "species") >>
CumulativeRow == <<Num(10), Num(10), Num(40), Num(70), Num(100)>>

Padded == <<EmptyCell, Num(1), EmptyCell>>

\* the lines a text is made of: those of a lineage block, of a top-5 block or of a
\* kingdom block
LineageLines ==
    {<<Hdr("Classified Taxon's Lineage")>>, LineageRow, CumulativeRow, NumRow(3), Padded}
T5Lines ==
    {<<Hdr("Top 5 species")>>, NameRow(3), NumRow(3), NameRow(MaxCols), NumRow(MaxCols)}
KingdomLines ==
    {<<Hdr("Kingdom Perc")>>, NameRow(3), NumRow(3), NumRow(2), <<>>}

Contents ==
    UNION {UNION {[1..n -> A] : n \in 0..MaxLines} :
                A \in {LineageLines, T5Lines, KingdomLines}}

TaxonStrings ==
    { Taxon(<<"h", "O", "m", "o", " ">>, "9606", r) :
        r \in {"species", "genus", "no rank", "strain"} }
      \cup {TaxId(<<"B", "a", " ">>, "2"), EmptyCell}

InitCf ==
    /\ BclIdle
    /\ SdIdle
    /\ NewIdle
    /\ cf_content \in Contents
    /\ cf_call = <<"idle", "">>
    /\ cf_out = [status |-> "idle", err |-> "", val |-> <<>>]

CallExtractLineage(header) ==
    /\ cf_call = <<"idle", "">>
    /\ cf_call' = <<"extract_lineage", header>>
    /\ cf_out' = extract_lineage(cf_content, header)
    /\ UNCHANGED <<cf_content, bclvars, sdvars, newvars>>

CallExtractKingdom ==
    /\ cf_call = <<"idle", "">>
    /\ cf_call' = <<"extract_kingdom", "Kingdom Perc">>
    /\ cf_out' = extract_kingdom(cf_content)
    /\ UNCHANGED <<cf_content, bclvars, sdvars, newvars>>

CallExtractT5(header) ==
    /\ cf_call = <<"idle", "">>
    /\ cf_call' = <<"extract_t5", header>>
    /\ cf_out' = extract_t5(cf_content, header)
    /\ UNCHANGED <<cf_content, bclvars, sdvars, newvars>>

\* parse_taxon(taxon_str) with no rank passed, as parse_cf_reports calls it
CallParseTaxon(c) ==
    /\ cf_call = <<"idle", "">>
    /\ cf_content = <<>>
    /\ cf_content' = << <<c>> >>
    /\ cf_call' = <<"parse_taxon", "">>
    /\ LET t == parse_taxon(c, FALSE, TaxRankMember("ROOT"))
       IN  cf_out' = IF t.err # "" THEN Raised(t.err) ELSE Returned(t)
    /\ UNCHANGED <<bclvars, sdvars, newvars>>

NextCf ==
    \/ CallExtractLineage("Classified Taxon's Lineage")
    \/ CallExtractKingdom
    \/ CallExtractT5("Top 5 species")
    \/ \E c \in TaxonStrings : CallParseTaxon(c)

SpecCf == InitCf /\ [][NextCf]_vars

\* reports in which a header line recurs: up to MaxLines + 1 lines, so that a
\* whole block fits before the second header line
RecurLines ==
    {<<Hdr("Top 5 species")>>, <<Hdr("Kingdom Perc")>>, NameRow(2), NumRow(2)}
RecurContents == UNION {[1..n -> RecurLines] : n \in 0..(MaxLines + 1)}

InitRecur ==
    /\ BclIdle
    /\ SdIdle
    /\ NewIdle
    /\ cf_content \in RecurContents
    /\ cf_call = <<"idle", "">>
    /\ cf_out = [status |-> "idle", err |-> "", val |-> <<>>]

SpecRecur == InitRecur /\ [][NextCf]_vars

(***************************************************************************)
(* kat: text of a report                                                   *)
(*                                                                         *)
(* A line is [indent, head, colon, val]: indent leading blanks, then the   *)
(* text head up to the first ":", then, when colon, ":" and the characters *)
(* val.  head is one of the three trigger texts or another label.          *)
(***************************************************************************)
KatLine(indent, head, colon, val) ==
    [indent |-> indent, head |-> head, colon |-> colon, val |-> val]
KmerTrigger == "K-mer frequency spectra statistics"
EstTrigger == "Estimated genome size"
GcTrigger == "GC distribution statistics"

\* content[i].strip(): the leading blanks go
KatStrip(l) == [l EXCEPT !.indent = 0]
\* line.startswith(trigger)
KatStartsWith(l, trigger) == l.indent = 0 /\ l.head = trigger

IsDigit(c) == c \in {"0", "1", "2", "3", "4", "5", "6", "7", "8", "9"}
DigitVal(c) ==
    CASE c = "0" -> 0 [] c = "1" -> 1 [] c = "2" -> 2 [] c = "3" -> 3
      [] c = "4" -> 4 [] c = "5" -> 5 [] c = "6" -> 6 [] c = "7" -> 7
      [] c = "8" -> 8 [] c = "9" -> 9
RECURSIVE DigitsVal(_, _)
DigitsVal(t, acc) ==
    IF t = <<>> THEN acc ELSE DigitsVal(Tail(t), 10 * acc + DigitVal(Head(t)))
RECURSIVE Pow10(_)
Pow10(k) == IF k = 0 THEN 1 ELSE 10 * Pow10(k - 1)
AllDigits(t) == \A j \in 1..Len(t) : IsDigit(t[j])

\* int(t) of a stripped text: its value when t is a non-empty run of digits
IntOf(t) ==
    IF t # <<>> /\ AllDigits(t) THEN [err |-> "", val |-> DigitsVal(t, 0)]
    ELSE [err |-> "ValueError", val |-> 0]

\* float(t) of a stripped text: digits with at most one "." and one digit at least
FloatOf(t) ==
    LET dots == {j \in 1..Len(t) : t[j] = "."}
        d    == IF dots = {} THEN Len(t) + 1 ELSE CHOOSE j \in dots : TRUE
        ip   == SubSeq(t, 1, d - 1)
        fp   == SubSeq(t, d + 1, Len(t))
    IN  IF Cardinality(dots) <= 1 /\ AllDigits(ip) /\ AllDigits(fp) /\ Len(ip) + Len(fp) > 0
        THEN [err |-> "", val |-> Rat(DigitsVal(ip \o fp, 0), Pow10(Len(fp)))]
        ELSE [err |-> "ValueError", val |-> RatZero]

\* int(x) of a float that is not negative
TruncInt(r) == r.num \div r.den

\* t[:-n]
DropLast(t, n) == IF Len(t) <= n THEN <<>> ELSE SubSeq(t, 1, Len(t) - n)

\* content[j].split(':')[1].strip()[:-n]   (j counts from 1; n = 0 is no slice)
KatField(content, j, n) ==
    IF j > Len(content) THEN [err |-> "IndexError", val |-> <<>>]
    ELSE IF ~content[j].colon THEN [err |-> "IndexError", val |-> <<>>]
    ELSE [err |-> "", val |-> DropLast(StripSpaces(content[j].val), n)]

\* int(content[j].split(':')[1].strip()[:-n])
KatIntField(content, j, n) ==
    LET f == KatField(content, j, n)
    IN  IF f.err # "" THEN [err |-> f.err, val |-> 0] ELSE IntOf(f.val)

\* int(float(content[j].split(':')[1].strip()[:-4]) * 1000000.0)
KatSizeField(content, j) ==
    LET f == KatField(content, j, 4)
        x == FloatOf(f.val)
    IN  IF f.err # "" THEN [err |-> f.err, val |-> 0]
        ELSE IF x.err # "" THEN [err |-> x.err, val |-> 0]
        ELSE [err |-> "", val |-> TruncInt(RatTimes(x.val, 1000000))]

(***************************************************************************)
(* kat.MultiqcModule.parse_kat_report                                      *)
(***************************************************************************)
KatState(err, T, i) == [err |-> err, T |-> T, i |-> i]

\* if line.startswith('K-mer frequency spectra statistics'): ...; i += 7
KatKmerStep(content, line, S) ==
    IF ~KatStartsWith(line, KmerTrigger) THEN S
    ELSE LET p == KatIntField(content, S.i + 3, 0)
             m == KatIntField(content, S.i + 6, 1)
         IN  IF p.err # "" THEN KatState(p.err, S.T, S.i)
             ELSE IF m.err # "" THEN KatState(m.err, S.T, S.i)
             ELSE KatState("", DictSet(DictSet(S.T, "kmer_peaks", p.val),
                                       "mean_kmer_freq", m.val), S.i + 7)

\* if line.startswith('Estimated genome size'): ... content[i] ...
KatEstStep(content, line, S) ==
    IF S.err # "" \/ ~KatStartsWith(line, EstTrigger) THEN S
    ELSE LET g == KatSizeField(content, S.i)
         IN  IF g.err # "" THEN KatState(g.err, S.T, S.i)
             ELSE KatState("", DictSet(S.T, "est_genome_size", g.val), S.i)

\* if line.startswith('GC distribution statistics'): ...; i += 4
KatGcStep(content, line, S) ==
    IF S.err # "" \/ ~KatStartsWith(line, GcTrigger) THEN S
    ELSE LET p == KatIntField(content, S.i + 3, 0)
         IN  IF p.err # "" THEN KatState(p.err, S.T, S.i)
             ELSE KatState("", DictSet(S.T, "gc_peaks", p.val), S.i + 4)

\* one pass of the while loop, i += 1 included
KatStep(content, S) ==
    LET line == KatStrip(content[S.i])
        S3 == KatGcStep(content, line,
                 KatEstStep(content, line, KatKmerStep(content, line, S)))
    IN  IF S3.err # "" THEN S3 ELSE KatState("", S3.T, S3.i + 1)

RECURSIVE KatLoop(_, _)
KatLoop(content, S) ==
    IF S.err # "" \/ S.i > Len(content) THEN S
    ELSE CHOOSE r \in {KatLoop(content, t) : t \in {KatStep(content, S)}} : TRUE

\* [err, val]: the exception raised, or the table_data returned
parse_kat_report(content) ==
    LET S == KatLoop(content, KatState("", <<>>, 1))
    IN  IF S.err # "" THEN [err |-> S.err, val |-> <<>>] ELSE [err |-> "", val |-> S.T]

(***************************************************************************)
(* parse_kat_report called on its own, on reports made of whole and        *)
(* cut-off sections                                                        *)
(***************************************************************************)
KatText == KatLine(0, "text", FALSE, <<>>)
KatPeaks(v) == KatLine(1, "Number of peaks", TRUE, <<" ">> \o v)
KatMean == KatLine(1, "Mean k-mer frequency", TRUE, <<" ", "1", "2", "x">>)
KatKmer == KatLine(0, KmerTrigger, FALSE, <<>>)
KatEst == KatLine(0, EstTrigger, TRUE, <<" ", "2", ".", "5", " ", "M", "b", "p">>)
KatGc == KatLine(1, GcTrigger, FALSE, <<>>)

KatBlocks ==
    { <<KatKmer, KatText, KatText, KatPeaks(<<"3">>), KatText, KatText, KatMean>>,
      <<KatKmer, KatEst, KatText, KatPeaks(<<"3">>), KatGc, KatText, KatMean>>,
      <<KatGc, KatText, KatText, KatPeaks(<<"2">>)>>,
      <<KatGc, KatText, KatText, KatPeaks(<<"n", "a">>)>>,
      <<KatGc, KatEst, KatText, KatText>>,
      <<KatEst>>,
      <<KatText>> }

RECURSIVE KatConcats(_)
KatConcats(n) ==
    IF n = 0 THEN {<<>>}
    ELSE KatConcats(n - 1) \cup {c \o b : c \in KatConcats(n - 1), b \in KatBlocks}

\* c_file['f'].splitlines(): a report, or one that ends early
KatContents ==
    UNION {{SubSeq(c, 1, n) : n \in 0..Len(c)} : c \in KatConcats(MaxBlocks)}

InitKat ==
    /\ BclIdle /\ SdIdle /\ CfIdle
    /\ KatIdle /\ CfmIdle /\ OutFresh
    /\ kat_content \in KatContents
    /\ kat_call = "ready"
    /\ kat_out = [err |-> "", val |-> <<>>]

CallParseKatReport ==
    /\ kat_call = "ready"
    /\ kat_call' = "done"
    /\ kat_out' = parse_kat_report(kat_content)
    /\ UNCHANGED <<kat_content, bclvars, sdvars, cfvars, katvars, cfmvars, outvars>>

NextKat == CallParseKatReport

SpecKat == InitKat /\ [][NextKat]_vars

(***************************************************************************)
(* The collaborators of the three __init__ (multiqc.modules.base_module)   *)
(***************************************************************************)
\* BaseMultiqcModule.ignore_samples(data): drops the ignored keys and keeps
\* the order of the others
ignore_samples(data, ignored) == SelectSeq(data, LAMBDA e : e.k \notin ignored)

IgnoreConfig(lanes, names) == [lanes |-> lanes, names |-> names]

(***************************************************************************)
(* kat.MultiqcModule.__init__                                              *)
(*                                                                         *)
(* A file is [s_name, content]: s_name is what clean_s_name returns for it.*)
(***************************************************************************)
KatFiles ==
    [s_name : {"a", "b"},
     content : { <<KatKmer, KatText, KatText, KatPeaks(<<"3">>), KatText, KatText, KatMean>>,
                 <<KatEst>>,
                 <<KatGc, KatText, KatText, KatPeaks(<<"2">>)>>,
                 <<KatKmer, KatText>>,
                 <<>> }]

InitKatModule ==
    /\ BclIdle /\ SdIdle /\ CfIdle /\ KatCallIdle /\ CfmIdle /\ OutFresh
    /\ kat_pc = "parse"
    /\ kat_raised = ""
    /\ kat_parsed = <<>>
    /\ kat_data = <<>>

\* for c_file in self.find_log_files('kat'):
\*     self.kat_data[s_name] = self.parse_kat_report(content)
KatParseFile(f) ==
    /\ kat_pc = "parse"
    /\ Len(kat_parsed) < MaxFiles
    /\ kat_parsed' = Append(kat_parsed, f)
    /\ \E r \in {parse_kat_report(f.content)} :
           IF r.err # ""
           THEN kat_raised' = r.err /\ kat_pc' = "raised" /\ UNCHANGED kat_data
           ELSE /\ kat_data' = DictSet(kat_data, f.s_name, r.val)
                /\ UNCHANGED <<kat_pc, kat_raised>>
    /\ UNCHANGED <<bclvars, sdvars, cfvars, katcallvars, cfmvars, outvars>>

\* the rest of __init__ once find_log_files is exhausted: ignore_samples,
\* raise UserWarning, write_data_file, add_section
KatFinish(ignored) ==
    /\ kat_pc = "parse"
    /\ sample_names_ignore' = IgnoreConfig({}, ignored)
    /\ LET kept == ignore_samples(kat_data, ignored)
       IN  /\ kat_data' = kept
           /\ IF Len(kept) = 0
              THEN /\ kat_raised' = "UserWarning"
                   /\ kat_pc' = "raised"
                   /\ UNCHANGED <<written, sections>>
              ELSE /\ written' = written \cup {"multiqc_kat"}
                   /\ sections' = sections \cup {"kat-first"}
                   /\ kat_pc' = "done"
                   /\ UNCHANGED kat_raised
    /\ UNCHANGED <<kat_parsed, bclvars, sdvars, cfvars, katcallvars, cfmvars>>

(***************************************************************************)
(* centrifuge.MultiqcModule.parse_cf_reports                               *)
(*                                                                         *)
(* Two more kinds of cell, each a whole line of the report:                *)
(*   lab    "<h><pre>(id:<id>; rank:<rank>)", h one of "Classified Taxon:",*)
(*          "Expected Taxon:", "MRCA Taxon:"; "<h><pre>" when id is ""     *)
(*   hits   "Total hits: <n>"; "Total hits" with no ":" when n < 0         *)
(***************************************************************************)
Labelled(h, pre, id, rank) == Cell("lab", h, pre, id, rank, 0)
TotalHits(n) == Cell("hits", "Total hits", <<>>, "", "", n)

\* line.startswith(label) for the labels of parse_cf_reports
StartsWithLabel(l, h) ==
    /\ l # <<>>
    /\ \/ l[1].k = "lab" /\ l[1].h = h
       \/ l[1].k = "hits" /\ h = "Total hits"
       \/ l[1].k = "hdr" /\ l[1].h = h

\* line[18:], line[16:], line[11:]: the text from the given offset on; the first
\* two offsets are one more than the length of the label
AfterLabel(c, extra) ==
    LET rest == IF extra = 1 /\ c.pre # <<>> THEN Tail(c.pre) ELSE c.pre
    IN  IF c.id = "" THEN (IF rest = <<>> THEN EmptyCell ELSE Cell("text", "", rest, "", "", 0))
        ELSE Taxon(rest, c.id, c.rank)

\* the three assignments to table_data once parse_taxon has returned t
TaxonAssign(T, t, keys) ==
    IF t.err # "" THEN [T EXCEPT !.err = t.err]
    ELSE [T EXCEPT !.table_data =
            DictSet(DictSet(DictSet(@, keys[1], [name |-> t.name, id |-> t.id]),
                            keys[2], t.rank),
                    keys[3], t.rank_id)]

\* the three labelled taxon lines: label, offset past the label, keys written
TaxonLabels ==
    << [h |-> "Classified Taxon:", extra |-> 1,
        keys |-> <<"actual_taxon", "actual_taxon_rank", "actual_taxon_rank_id">>],
       [h |-> "Expected Taxon:", extra |-> 1,
        keys |-> <<"expected_taxon", "expected_taxon_rank", "expected_taxon_rank_id">>],
       [h |-> "MRCA Taxon:", extra |-> 0,
        keys |-> <<"mrca_taxon", "mrca_taxon_rank", "mrca_taxon_rank_id">>] >>

\* name, id, rank, rank_id = self.parse_taxon(line[n:].strip()); table_data[...] = ...
TaxonEntry(T, c, L) ==
    TaxonAssign(T, parse_taxon(AfterLabel(c, L.extra), FALSE, TaxRankMember("ROOT")), L.keys)

\* the body of the loop over the lines; T = [table_data, exp_present, err]
CfLine(T, l) ==
    IF \E j \in 1..3 : StartsWithLabel(l, TaxonLabels[j].h)
    THEN TaxonEntry(T, l[1], TaxonLabels[CHOOSE j \in 1..3 : StartsWithLabel(l, TaxonLabels[j].h)])
    ELSE IF StartsWithLabel(l, "Expected Taxon ID provided") THEN [T EXCEPT !.exp_present = TRUE]
    ELSE IF StartsWithLabel(l, "Total hits")
    THEN (IF l[1].n < 0 THEN [T EXCEPT !.err = "IndexError"]   \* split(':')[1]
          ELSE [T EXCEPT !.table_data = DictSet(@, "total_hits", l[1].n)])
    ELSE T

RECURSIVE CfLines(_, _)
CfLines(content, T) ==
    IF content = <<>> \/ T.err # "" THEN T
    ELSE CHOOSE r \in {CfLines(Tail(content), t) : t \in {CfLine(T, Head(content))}} : TRUE

\* for i, r in enumerate(TaxRank): els_lineage_data[r.name.lower()] = 100.0 if i == 0 else 0.0
SynthesizedLineage ==
    [i \in 1..Len(TaxRank) |->
        [k |-> LowerRank(TaxRank[i].name), v |-> IF i = 1 THEN Rat(100, 1) ELSE RatZero]]

CfReport(err, table, cls, els, kingdom, rank, t5s, t5c) ==
    [err |-> err, table_data |-> table, cls_lineage_data |-> cls,
     els_lineage_data |-> els, kingdom_data |-> kingdom, rank_data |-> rank,
     t5_species_data |-> t5s, t5_class_data |-> t5c]
CfReportError(err) == CfReport(err, <<>>, <<>>, <<>>, <<>>, <<>>, <<>>, <<>>)

\* the order in which parse_cf_reports runs its steps decides which exception
\* leaves it; lin and t5 hold the extractor results by header
CfAssemble(T, lin, kin, t5) ==
    LET cls == lin["Classified Taxon's Lineage"]
        rnk == lin["Rank Perc"]
        t5s == t5["Top 5 species"]
        t5c == t5["Top 5 class"]
        els == IF T.exp_present THEN lin["Expected Taxon's Lineage"]
               ELSE Returned(SynthesizedLineage)
    IN  IF T.err # "" THEN CfReportError(T.err)
        ELSE IF cls.err # "" THEN CfReportError(cls.err)
        ELSE IF kin.err # "" THEN CfReportError(kin.err)
        ELSE IF rnk.err # "" THEN CfReportError(rnk.err)
        ELSE IF t5s.err # "" THEN CfReportError(t5s.err)
        ELSE IF t5c.err # "" THEN CfReportError(t5c.err)
        ELSE IF els.err # "" THEN CfReportError(els.err)
        ELSE CfReport("", T.table_data, cls.val, els.val, kin.val, rnk.val, t5s.val, t5c.val)

parse_cf_reports(content) ==
    CfAssemble(
        CfLines(content, [table_data |-> <<>>, exp_present |-> FALSE, err |-> ""]),
        [h \in {"Classified Taxon's Lineage", "Rank Perc", "Expected Taxon's Lineage"} |->
            extract_lineage(content, h)],
        extract_kingdom(content),
        [h \in {"Top 5 species", "Top 5 class"} |-> extract_t5(content, h)])

(***************************************************************************)
(* centrifuge.MultiqcModule.__init__                                       *)
(*                                                                         *)
(* A file is [s_name, content]: s_name is what clean_s_name returns for it.*)
(* In a report the labelled lines come before the section blocks.          *)
(***************************************************************************)
ClassifiedLine == <<Labelled("Classified Taxon:", <<" ", "h", "O", "m", "o", " ">>, "9606", "species")>>
LineageBlock(h) == <<<<Hdr(h)>>, LineageRow, CumulativeRow, CumulativeRow>>
T5Block(h) == <<<<Hdr(h)>>, NameRow(3), NumRow(3), NumRow(3)>>
FullReport ==
    <<<<TotalHits(500)>>, ClassifiedLine>>
      \o LineageBlock("Classified Taxon's Lineage") \o LineageBlock("Rank Perc")
      \o <<<<Hdr("Kingdom Perc")>>, NameRow(3), NumRow(3)>>
      \o T5Block("Top 5 species") \o T5Block("Top 5 class")

CfFiles ==
    [s_name : {"a", "b"},
     content : { <<>>,
                 <<<<TotalHits(500)>>>>,
                 <<<<TotalHits(500)>>, ClassifiedLine>>,
                 <<<<TotalHits(500)>>>> \o LineageBlock("Classified Taxon's Lineage"),
                 <<<<Hdr("Expected Taxon ID provided")>>>>
                    \o LineageBlock("Expected Taxon's Lineage"),
                 <<<<Hdr("Classified Taxon's Lineage")>>, LineageRow, NumRow(3), NumRow(3)>>,
                 FullReport }]

InitCfModule ==
    /\ BclIdle /\ SdIdle /\ CfIdle /\ KatCallIdle /\ KatIdle /\ OutFresh
    /\ cfm_pc = "parse"
    /\ CfmFresh

\* for c_file in self.find_log_files('centrifuge'):
\*     self.table_data[s_name], ... = self.parse_cf_reports(content)
CfParseFile(f) ==
    /\ cfm_pc = "parse"
    /\ Len(cfm_parsed) < MaxFiles
    /\ cfm_parsed' = Append(cfm_parsed, f)
    /\ \E r \in {parse_cf_reports(f.content)} :
           IF r.err # ""
           THEN /\ cfm_raised' = r.err
                /\ cfm_pc' = "raised"
                /\ UNCHANGED <<table_data, cls_lineage_data, els_lineage_data,
                               kingdom_data, rank_data, top5_species_data,
                               top5_class_data>>
           ELSE /\ table_data' = DictSet(table_data, f.s_name, r.table_data)
                /\ cls_lineage_data' = DictSet(cls_lineage_data, f.s_name, r.cls_lineage_data)
                /\ els_lineage_data' = DictSet(els_lineage_data, f.s_name, r.els_lineage_data)
                /\ kingdom_data' = DictSet(kingdom_data, f.s_name, r.kingdom_data)
                /\ rank_data' = DictSet(rank_data, f.s_name, r.rank_data)
                /\ top5_species_data' = DictSet(top5_species_data, f.s_name, r.t5_species_data)
                /\ top5_class_data' = DictSet(top5_class_data, f.s_name, r.t5_class_data)
                /\ UNCHANGED <<cfm_pc, cfm_raised>>
    /\ UNCHANGED <<bclvars, sdvars, cfvars, katcallvars, katvars, outvars>>

\* the rest of __init__ once find_log_files is exhausted: ignore_samples on the
\* seven mappings, raise UserWarning, add_section; the module writes no data file
CfFinish(ignored) ==
    /\ cfm_pc = "parse"
    /\ sample_names_ignore' = IgnoreConfig({}, ignored)
    /\ table_data' = ignore_samples(table_data, ignored)
    /\ cls_lineage_data' = ignore_samples(cls_lineage_data, ignored)
    /\ els_lineage_data' = ignore_samples(els_lineage_data, ignored)
    /\ kingdom_data' = ignore_samples(kingdom_data, ignored)
    /\ rank_data' = ignore_samples(rank_data, ignored)
    /\ top5_species_data' = ignore_samples(top5_species_data, ignored)
    /\ top5_class_data' = ignore_samples(top5_class_data, ignored)
    /\ IF Len(ignore_samples(table_data, ignored)) = 0
       THEN /\ cfm_raised' = "UserWarning"
            /\ cfm_pc' = "raised"
            /\ UNCHANGED <<written, sections>>
       ELSE /\ sections' = sections \cup
                    {"centrifuge-first", "centrifuge-second", "centrifuge-third",
                     "centrifuge-fourth", "centrifuge-fifth", "centrifuge-sixth",
                     "centrifuge-seventh"}
            /\ cfm_pc' = "done"
            /\ UNCHANGED <<cfm_raised, written>>
    /\ UNCHANGED <<cfm_parsed, bclvars, sdvars, cfvars, katcallvars, katvars>>

(***************************************************************************)
(* bcl2fastq.MultiqcModule.__init__, after the fold                        *)
(***************************************************************************)
\* a variant that takes either mapping being empty for "no data"
NoDataEither(bylane, bysample) == Len(bylane) = 0 \/ Len(bysample) = 0

\* if len(self.bcl2fastq_bylane) == 0 and len(self.bcl2fastq_bysample) == 0
NoData(bylane, bysample) == Len(bylane) = 0 /\ Len(bysample) = 0

\* ignore_samples on the four mappings, raise UserWarning, write_data_file,
\* add_section.  ignored = [lanes, names]: the ignored keys among the by-lane
\* keys and among the sample names.
BclFinish(ignored) ==
    /\ pc = "split"
    /\ sample_names_ignore' = ignored
    /\ bcl2fastq_bylane' = ignore_samples(bcl2fastq_bylane, ignored.lanes)
    /\ bcl2fastq_undetermined' = ignore_samples(bcl2fastq_undetermined, ignored.lanes)
    /\ bcl2fastq_bysample' = ignore_samples(bcl2fastq_bysample, ignored.names)
    /\ bcl2fastq_bysample_lane' = ignore_samples(bcl2fastq_bysample_lane, ignored.names)
    /\ IF NoData(ignore_samples(bcl2fastq_bylane, ignored.lanes),
                 ignore_samples(bcl2fastq_bysample, ignored.names))
       THEN /\ raised' = "UserWarning"
            /\ pc' = "raised"
            /\ UNCHANGED <<written, sections>>
       ELSE /\ written' = written \cup
                    {"multiqc_bcl2fastq_bylane", "multiqc_bcl2fastq_bysample"}
            /\ sections' = sections \cup
                    {"bcl2fastq-lanestats", "bcl2fastq-undetermined",
                     "bcl2fastq-bylane", "bcl2fastq-bysample"}
            /\ pc' = "done"
            /\ UNCHANGED raised
    /\ UNCHANGED <<parsed, log, bcl2fastq_data, source_files, sdvars, cfvars,
                   katcallvars, katvars, cfmvars>>

\* the ignore lists the runs are checked under
LaneKeys == {prepend_runid(r, LaneName(n)) : r \in {RUN1, RUN2}, n \in {"1", "2"}}
BclIgnoreConfigs ==
    {IgnoreConfig(L, N) : L \in {{}, {prepend_runid(RUN1, LaneName("1"))}, LaneKeys},
                          N \in {{}, {"S1"}}}
NameIgnoreConfigs == SUBSET {"a", "b"}

(***************************************************************************)
(* One run of one of the three modules                                     *)
(***************************************************************************)
InitModules == Init \/ InitKatModule \/ InitCfModule

NextModules ==
    \/ \E f \in Files : ParseFile(f)
    \/ Split
    \/ \E ig \in BclIgnoreConfigs : BclFinish(ig)
    \/ \E f \in KatFiles : KatParseFile(f)
    \/ \E ig \in NameIgnoreConfigs : KatFinish(ig)
    \/ \E f \in CfFiles : CfParseFile(f)
    \/ \E ig \in NameIgnoreConfigs : CfFinish(ig)

SpecModules == InitModules /\ [][NextModules]_vars

(***************************************************************************)
(* What the claims say about the demultiplexing input                      *)
(***************************************************************************)
RECURSIVE SeqSum(_)
SeqSum(s) == IF s = <<>> THEN 0 ELSE Head(s) + SeqSum(Tail(s))

\* every ConversionResults entry handed to parse_file_as_json so far, in order,
\* with the run id and the position of its file
RECURSIVE FlatEntries(_, _)
FlatEntries(fs, n) ==
    IF fs = <<>> THEN <<>>
    ELSE (IF Head(fs).valid
          THEN [i \in 1..Len(Head(fs).ConversionResults) |->
                  [run |-> Head(fs).RunId, file |-> n,
                   cr |-> Head(fs).ConversionResults[i]]]
          ELSE <<>>) \o FlatEntries(Tail(fs), n + 1)
Entries == FlatEntries(parsed, 1)

SameLane(e1, e2) == e1.run = e2.run /\ e1.cr.LaneNumber = e2.cr.LaneNumber
\* the entries that repeat the run id and lane number of an earlier entry
DupEntries == {i \in 1..Len(Entries) : \E j \in 1..(i - 1) : SameLane(Entries[j], Entries[i])}
\* the entries that no later entry repeats
LastEntries == {i \in 1..Len(Entries) :
                  \A j \in (i + 1)..Len(Entries) : ~SameLane(Entries[j], Entries[i])}

ReadsOf(cr) == SeqSum([i \in 1..Len(cr.DemuxResults) |-> cr.DemuxResults[i].NumberReads])
YieldOf(cr) == SeqSum([i \in 1..Len(cr.DemuxResults) |-> cr.DemuxResults[i].Yield])
PerfectOf(cr) ==
    SeqSum([i \in 1..Len(cr.DemuxResults) |->
        IF cr.DemuxResults[i].hasIndexMetrics
        THEN SeqSum([j \in 1..Len(cr.DemuxResults[i].IndexMetrics) |->
                        cr.DemuxResults[i].IndexMetrics[j].MismatchCounts0])
        ELSE 0])
YieldQ30Of(cr) ==
    SeqSum([i \in 1..Len(cr.DemuxResults) |->
        SeqSum([j \in 1..Len(cr.DemuxResults[i].ReadMetrics) |->
                        cr.DemuxResults[i].ReadMetrics[j].YieldQ30])])
NamesOf(cr) ==
    {cr.DemuxResults[i].SampleName : i \in 1..Len(cr.DemuxResults)}
        \cup (IF cr.hasUndetermined THEN {"undetermined"} ELSE {})

\* the UnknownBarcodes entries of file n for lane number `lane`
UnknownIdx(n, lane) ==
    {i \in 1..Len(parsed[n].UnknownBarcodes) : parsed[n].UnknownBarcodes[i].Lane = lane}
\* the barcodes file n reports for the lane: those of its last entry for it
UnknownOf(n, lane) ==
    parsed[n].UnknownBarcodes[
        CHOOSE i \in UnknownIdx(n, lane) : \A j \in UnknownIdx(n, lane) : j <= i].Barcodes
\* the files, from the one holding entry e on, that report unknown barcodes for
\* e's run and lane
ReportingFiles(e) ==
    {n \in e.file..Len(parsed) :
        /\ parsed[n].valid
        /\ parsed[n].RunId = e.run
        /\ UnknownIdx(n, e.cr.LaneNumber) # {}}

LaneRec(run, laneNo) == DictGet(DictGet(bcl2fastq_data, run), LaneName(laneNo))
HasLaneRec(run, laneNo) ==
    DictHas(bcl2fastq_data, run) /\ DictHas(DictGet(bcl2fastq_data, run), LaneName(laneNo))

\* the fold was called (and returned or raised)
SplitCalled == pc \in {"split", "split_raised"}
\* every recorded lane has its unknown-barcode slots, so that the fold does not
\* stop at unknown_barcodes['1']
AllLanesHaveSlots ==
    \A r \in 1..Len(bcl2fastq_data) : \A l \in 1..Len(bcl2fastq_data[r].v) :
        bcl2fastq_data[r].v[l].v.unknown_barcodes # <<>>

AllLaneRecs ==
    UNION {{<<r, l>> : l \in 1..Len(bcl2fastq_data[r].v)} : r \in 1..Len(bcl2fastq_data)}
LaneAt(rl) == bcl2fastq_data[rl[1]].v[rl[2]]
UniqAt(rl) == prepend_runid(bcl2fastq_data[rl[1]].k, LaneAt(rl).k)
SampleNames == UNION {DictKeys(LaneAt(rl).v.samples) : rl \in AllLaneRecs}

ZeroMetrics(d) ==
    /\ d.total_yield = 0 => d.percent_Q30 = RatZero /\ d.mean_qscore = RatZero
    /\ d.total = 0 => d.percent_perfectIndex = RatZero

\* C1: no derived metric raises on a zero denominator: when a lane or a sample has
\* total reads 0 or total yield 0, parse_file_as_json and
\* split_data_by_lane_and_sample both complete and the percent_Q30,
\* percent_perfectIndex and mean_qscore of that lane or sample are 0.  (Stated for
\* inputs that report unknown barcodes for every lane.)
C1_ZeroDenominatorNeverRaises ==
    (/\ SplitCalled
     /\ AllLanesHaveSlots
     /\ \E rl \in AllLaneRecs :
           \/ LaneAt(rl).v.total = 0 \/ LaneAt(rl).v.total_yield = 0
           \/ \E i \in 1..Len(LaneAt(rl).v.samples) :
                 \/ LaneAt(rl).v.samples[i].v.total = 0
                 \/ LaneAt(rl).v.samples[i].v.total_yield = 0)
    => /\ pc = "split"
       /\ \A rl \in AllLaneRecs :
             /\ ZeroMetrics(LaneAt(rl).v)
             /\ DictHas(bcl2fastq_bylane, UniqAt(rl))
             /\ ZeroMetrics(DictGet(bcl2fastq_bylane, UniqAt(rl)))
       /\ \A s \in SampleNames :
             /\ DictHas(bcl2fastq_bysample, s)
             /\ ZeroMetrics(DictGet(bcl2fastq_bysample, s))

\* C2: after parse_file_as_json followed by split_data_by_lane_and_sample, every
\* (run, lane) of the input has a record bylane["<run> - L<lane>"] whose total is
\* the sum of NumberReads over the lane's DemuxResults, whose
\* percent_perfectIndex is 100 * (sum of MismatchCounts["0"]) / total and whose
\* percent_Q30 is 100 * (sum of YieldQ30) / (sum of Yield).  (Stated for inputs
\* that report unknown barcodes for every lane and whose lanes have reads and
\* yield.)
C2_ByLaneAfterSplit ==
    (/\ SplitCalled
     /\ AllLanesHaveSlots
     /\ LastEntries # {}
     /\ \A i \in LastEntries : ReadsOf(Entries[i].cr) > 0 /\ YieldOf(Entries[i].cr) > 0)
    => /\ pc = "split"
       /\ \A i \in LastEntries :
            LET e == Entries[i]
                key == prepend_runid(e.run, LaneName(e.cr.LaneNumber))
            IN  /\ DictHas(bcl2fastq_bylane, key)
                /\ LET b == DictGet(bcl2fastq_bylane, key)
                   IN  /\ b.total = ReadsOf(e.cr)
                       /\ b.percent_perfectIndex.num * ReadsOf(e.cr)
                            = 100 * PerfectOf(e.cr) * b.percent_perfectIndex.den
                       /\ b.percent_Q30.num * YieldOf(e.cr)
                            = 100 * YieldQ30Of(e.cr) * b.percent_Q30.den

\* the sum of F over the records of sample s in every recorded (run, lane)
SampleSum(s, F(_)) ==
    SeqSum([r \in 1..Len(bcl2fastq_data) |->
        SeqSum([l \in 1..Len(bcl2fastq_data[r].v) |->
            LET samples == bcl2fastq_data[r].v[l].v.samples
            IN  IF DictHas(samples, s) THEN F(DictGet(samples, s)) ELSE 0])])
FTotal(d) == d.total
FTotalYield(d) == d.total_yield
FPerfectIndex(d) == d.perfectIndex
FYieldQ30(d) == d.yieldQ30
FQscoreSum(d) == d.qscore_sum

\* C3: split_data_by_lane_and_sample completes and, for every sample name s,
\* bysample[s].total, total_yield, perfectIndex, yieldQ30 and qscore_sum each equal
\* the sum of that field over every (run, lane) in which s occurs.  (Stated for
\* inputs that report unknown barcodes for every lane.)
C3_BySampleSums ==
    (SplitCalled /\ AllLanesHaveSlots /\ SampleNames # {})
    => /\ pc = "split"
       /\ \A s \in SampleNames :
            /\ DictHas(bcl2fastq_bysample, s)
            /\ LET b == DictGet(bcl2fastq_bysample, s)
               IN  /\ b.total = SampleSum(s, FTotal)
                   /\ b.total_yield = SampleSum(s, FTotalYield)
                   /\ b.perfectIndex = SampleSum(s, FPerfectIndex)
                   /\ b.yieldQ30 = SampleSum(s, FYieldQ30)
                   /\ b.qscore_sum = SampleSum(s, FQscoreSum)

DupLaneLog == SelectSeq(log, LAMBDA m : m.msg = "duplicate_lane")

\* C4: when a ConversionResults entry has the run id and lane number of a lane
\* already recorded (earlier in the same file or by an earlier file), a
\* duplicate-lane diagnostic is logged, and the recorded lane afterwards holds only
\* the later entry's data: its totals and its samples are those of the last entry
\* for the lane, and once the file is parsed its unknown barcodes are those
\* reported for the lane by the last entry's file or a later file of the run, none
\* when neither reports any: nothing of an earlier entry remains.
C4_DuplicateLaneOverwrites ==
    /\ Len(DupLaneLog) = Cardinality(DupEntries)
    /\ \A i \in DupEntries :
          \E m \in 1..Len(DupLaneLog) :
              DupLaneLog[m].key
                = prepend_runid(Entries[i].run, LaneName(Entries[i].cr.LaneNumber))
    /\ \A i \in LastEntries :
          LET e == Entries[i] IN
          /\ HasLaneRec(e.run, e.cr.LaneNumber)
          /\ LET L == LaneRec(e.run, e.cr.LaneNumber)
             IN  /\ L.total = ReadsOf(e.cr)
                 /\ L.total_yield = YieldOf(e.cr)
                 /\ L.perfectIndex = PerfectOf(e.cr)
                 /\ L.yieldQ30 = YieldQ30Of(e.cr)
                 /\ DictKeys(L.samples) = NamesOf(e.cr)
                 /\ pc # "parse_raised" =>
                       IF ReportingFiles(e) = {}
                       THEN L.unknown_barcodes = <<>>
                       ELSE LET n == CHOOSE m \in ReportingFiles(e) :
                                        \A k \in ReportingFiles(e) : k <= m
                                u == UnknownOf(n, e.cr.LaneNumber)
                            IN  /\ Len(L.unknown_barcodes) = 5
                                /\ \A k \in 1..5 :
                                     L.unknown_barcodes[k]
                                       = IF k <= Len(u) THEN u[k]
                                         ELSE [barcode |-> "N/A", count |-> 0]

\* C4 happens: a second file repeats the run and lane of the first with other
\* reads; the first reported unknown barcodes for the lane, the second none; the
\* diagnostic is logged and the lane holds no unknown barcodes
C4_Witness ==
    /\ pc = "parse"
    /\ Len(parsed) = 2
    /\ Len(Entries) = 2
    /\ DupEntries = {2}
    /\ Entries[1].file = 1 /\ Entries[2].file = 2
    /\ ReadsOf(Entries[1].cr) > 0
    /\ ReadsOf(Entries[2].cr) > 0
    /\ ReadsOf(Entries[1].cr) # ReadsOf(Entries[2].cr)
    /\ UnknownIdx(1, Entries[1].cr.LaneNumber) # {}
    /\ UnknownIdx(2, Entries[2].cr.LaneNumber) = {}
    /\ Len(DupLaneLog) = 1
    /\ LaneRec(Entries[2].run, Entries[2].cr.LaneNumber).unknown_barcodes = <<>>

\* C5: safe_div(x, 0) is 0 for every x, and safe_div(x, y) is the quotient x / y
\* for every y other than 0.
C5_SafeDiv ==
    sd_pc = "done" =>
        /\ sd_y = 0 => sd_out = RatZero
        /\ sd_y # 0 => sd_out.den > 0 /\ sd_out.num * sd_y = sd_x * sd_out.den

\* C5 happens: a non-zero numerator was divided by 0 and the result is 0
C5_Witness == sd_pc = "done" /\ sd_y = 0 /\ sd_x # 0 /\ sd_out = RatZero

(***************************************************************************)
(* What the claims say about a report text and a section header            *)
(***************************************************************************)
ExtractorCalled == cf_call[1] \in {"extract_lineage", "extract_kingdom", "extract_t5"}
\* line i of the text starts with the header prefix of the call
IsHeaderLine(i) == StartsWith(Strip(cf_content[i]), cf_call[2])
HeaderLines == {i \in 1..Len(cf_content) : IsHeaderLine(i)}
\* the number of tab-separated fields of line i
Fields(i) == Len(SplitTabs(Strip(cf_content[i])))
FieldsOf(i) == SplitTabs(Strip(cf_content[i]))
SetMax(S) == CHOOSE m \in S : \A k \in S : k <= m

\* the lines captured as header row, first value row and second value row: the
\* line after a header line, and the next two while no header line intervenes
HeaderRowAt == {h + 1 : h \in {i \in HeaderLines : i + 1 <= Len(cf_content)}}
ValueRow1At ==
    {h + 2 : h \in {i \in HeaderLines :
                        i + 2 <= Len(cf_content) /\ ~IsHeaderLine(i + 1)}}
ValueRow2At ==
    {h + 3 : h \in {i \in HeaderLines :
                        /\ i + 3 <= Len(cf_content)
                        /\ ~IsHeaderLine(i + 1) /\ ~IsHeaderLine(i + 2)}}

\* the text holds one block: a single header line followed by three rows of the
\* same number of fields, the two value rows numeric
OneBlock ==
    /\ Cardinality(HeaderLines) = 1
    /\ ValueRow2At # {}
    /\ LET h == SetMax(HeaderLines)
       IN  /\ Fields(h + 2) = Fields(h + 1)
           /\ Fields(h + 3) = Fields(h + 1)
           /\ \A r \in {h + 2, h + 3} : \A i \in 1..Fields(r) : FieldsOf(r)[i].k = "num"
BlockRow(r) == FieldsOf(SetMax(HeaderLines) + r)

\* C6: for a lineage block with cumulative values c[0..n-1] over n columns,
\* extract_lineage returns a series whose entry under the rank of column i is c[0]
\* for i = 0 and c[i] - c[i-1] for i > 0.  (Stated for a block whose columns are
\* descriptors "Name (id:N; rank:R)" of pairwise different ranks of TaxRank.)
C6_LineageDeltas ==
    (/\ cf_call[1] = "extract_lineage"
     /\ OneBlock
     /\ \A i \in 1..Len(BlockRow(1)) :
           /\ BlockRow(1)[i].k = "taxon"
           /\ StripSpaces(BlockRow(1)[i].pre) # <<>>
           /\ Len(BlockRow(1)[i].pre) > 1
           /\ IsTaxRankName(UpperRank(BlockRow(1)[i].rank))
           /\ \A j \in 1..Len(BlockRow(1)) :
                 i # j => BlockRow(1)[i].rank # BlockRow(1)[j].rank)
    => /\ cf_out.status = "returned"
       /\ \A i \in 1..Len(BlockRow(1)) :
             /\ DictHas(cf_out.val, BlockRow(1)[i].rank)
             /\ DictGet(cf_out.val, BlockRow(1)[i].rank)
                  = IF i = 1 THEN BlockRow(3)[1].n
                    ELSE BlockRow(3)[i].n - BlockRow(3)[i - 1].n

Slots == <<"first", "second", "third", "fourth", "fifth">>

\* C7: for every top-5 block, whatever its number k of data columns, extract_t5
\* returns exactly five name/metric entries: the first min(k, 5) are the block's
\* columns in source order and every remaining one is the sentinel ("N/A", 0.0).
C7_TopFivePadding ==
    (cf_call[1] = "extract_t5" /\ OneBlock)
    => /\ cf_out.status = "returned"
       /\ DictKeys(cf_out.val) = {Slots[i] : i \in 1..5}
       /\ \A i \in 1..5 :
             DictGet(cf_out.val, Slots[i])
               = IF i <= Len(BlockRow(1))
                 THEN [name |-> BlockRow(1)[i], count |-> BlockRow(2)[i].n]
                 ELSE [name |-> Cell("text", "N/A", <<>>, "", "", 0), count |-> 0]

\* a captured value row has another number of fields than the captured header row
RowsMismatch ==
    \/ ValueRow1At # {} /\ Fields(SetMax(ValueRow1At)) # Fields(SetMax(HeaderRowAt))
    \/ ValueRow2At # {} /\ Fields(SetMax(ValueRow2At)) # Fields(SetMax(HeaderRowAt))

C9_SectionNotFound ==
    (ExtractorCalled /\ HeaderLines = {})
    => cf_out.status = "raised" /\ cf_out.err = "ValueError(section not found)"

\* C10: rank lookup by name returns the Root fallback for every name that is not a
\* rank and never raises, where parse_taxon looks the rank of a descriptor
\* "Name (id:N; rank:R)" up.
C10_RankLookupNeverRaises ==
    (cf_call[1] = "parse_taxon" /\ cf_content[1][1].k = "taxon")
    => /\ cf_out.status = "returned"
       /\ ~IsTaxRankName(SpacesToUnderscores(UpperRank(cf_content[1][1].rank)))
            => cf_out.val.rank_id = Rat(0, 1)

(***************************************************************************)
(* What the claims say about KAT reports                                   *)
(***************************************************************************)
KatCalled == kat_call = "done"
KatHas(k) == DictHas(kat_out.val, k)

\* C11: parse_kat_report returns a record for every input and never raises; a
\* section whose trigger is absent or whose value lines are cut off by the end
\* of the input leaves its fields unset.
C11_KatNeverRaises ==
    KatCalled =>
        /\ kat_out.err = ""
        /\ (\A i \in 1..Len(kat_content) :
                ~KatStartsWith(KatStrip(kat_content[i]), KmerTrigger))
             => (~KatHas("kmer_peaks") /\ ~KatHas("mean_kmer_freq"))
        /\ (\A i \in 1..Len(kat_content) :
                ~KatStartsWith(KatStrip(kat_content[i]), EstTrigger))
             => ~KatHas("est_genome_size")
        /\ (\A i \in 1..Len(kat_content) :
                ~KatStartsWith(KatStrip(kat_content[i]), GcTrigger))
             => ~KatHas("gc_peaks")

(***************************************************************************)
(* What the claims say about the runs of the modules                       *)
(***************************************************************************)
KatParsesOk(f) == parse_kat_report(f.content).err = ""
CfParsesOk(f) == parse_cf_reports(f.content).err = ""

\* C12: a parse failure in one file drops that file's record only: no parse
\* failure leaves __init__ (so the files after it are processed), and while the
\* files are read every file that parsed has its record in the mappings.
C12_ParseFailureIsLocal ==
    /\ kat_raised \in {"", "UserWarning"}
    /\ cfm_raised \in {"", "UserWarning"}
    /\ kat_pc = "parse" =>
          \A i \in 1..Len(kat_parsed) :
              KatParsesOk(kat_parsed[i]) => DictHas(kat_data, kat_parsed[i].s_name)
    /\ cfm_pc = "parse" =>
          \A i \in 1..Len(cfm_parsed) :
              CfParsesOk(cfm_parsed[i]) => DictHas(table_data, cfm_parsed[i].s_name)

\* the run/lane data after the valid files among fs, each under its own position
RECURSIVE DataAfterValid(_, _, _)
DataAfterValid(fs, n, data) ==
    IF fs = <<>> THEN data
    ELSE DataAfterValid(Tail(fs), n + 1,
            IF Head(fs).valid
            THEN parse_file_as_json(data, <<>>, [f |-> Head(fs), fn |-> n]).data
            ELSE data)
Warnings == {i \in 1..Len(log) : log[i].level = "warn"}
InvalidParsed == {i \in 1..Len(parsed) : ~parsed[i].valid}

\* C13: a file that is not valid JSON is skipped with a warning: no ValueError
\* leaves __init__, one warning is logged per such file, and the run/lane data
\* are those of the valid files alone, the ones after the invalid file included.
C13_InvalidJsonSkipped ==
    /\ raised # "ValueError"
    /\ pc \in {"parse", "split", "split_raised"} =>
          /\ bcl2fastq_data = DataAfterValid(parsed, 1, <<>>)
          /\ Cardinality(Warnings) = Cardinality(InvalidParsed)

C13_Witness ==
    /\ pc = "parse"
    /\ Len(parsed) = 2
    /\ ~parsed[1].valid
    /\ parsed[2].valid
    /\ bcl2fastq_data # <<>>
    /\ Cardinality(Warnings) = 1

C15_FiveUnknownSlots ==
    /\ raised # "KeyError"
    /\ \A rl \in AllLaneRecs :
          LET ub == LaneAt(rl).v.unknown_barcodes
          IN  /\ Len(ub) = 5
              /\ \E n \in 0..5 :
                    /\ \A i \in 1..n : ub[i] # NASlot
                    /\ \A i \in (n + 1)..5 : ub[i] = NASlot

\* the distinct (run id, lane number) pairs parsed so far
ParsedPairs == {<<Entries[i].run, Entries[i].cr.LaneNumber>> : i \in 1..Len(Entries)}
PairKey(p) == prepend_runid(p[1], LaneName(p[2]))
NoKeyTwice ==
    \A i, j \in 1..Len(bcl2fastq_bylane) :
        bcl2fastq_bylane[i].k = bcl2fastq_bylane[j].k => i = j

HasLine(content, h) == \E i \in 1..Len(content) : StartsWithLabel(content[i], h)
\* the file whose parse the loop of __init__ has just run
LastCf == cfm_parsed[Len(cfm_parsed)]
CfJustParsed == cfm_parsed # <<>> /\ cfm_pc \in {"parse", "raised"} /\ cfm_raised # "UserWarning"

\* C17: on a report with "Total hits: 500" and
\* "Classified Taxon: hOmo (id:9606; rank:species)" parse_cf_reports returns
\* total_hits = 500 and the classified taxon "Homo" with id 9606 and the rank
\* level of species.
C17_TotalHitsAndTaxon ==
    (/\ CfJustParsed
     /\ LastCf.content = FullReport)
    => /\ cfm_raised = ""
       /\ DictHas(table_data, LastCf.s_name)
       /\ LET t == DictGet(table_data, LastCf.s_name)
          IN  /\ DictGet(t, "total_hits") = 500
              /\ DictGet(t, "actual_taxon").name = <<"H", "o", "m", "o">>
              /\ DictGet(t, "actual_taxon").id = <<"9606">>
              /\ DictGet(t, "actual_taxon_rank_id") = TaxRankMember("SPECIES").value

\* C18: on a report without a line starting with "Expected Taxon ID provided",
\* whatever else it contains, parse_cf_reports returns as expected lineage the
\* synthesized series: one value per rank, 100 for root and 0 for every other.
C18_SynthesizedExpectedLineage ==
    (/\ CfJustParsed
     /\ ~HasLine(LastCf.content, "Expected Taxon ID provided"))
    => /\ cfm_raised = ""
       /\ DictHas(els_lineage_data, LastCf.s_name)
       /\ LET els == DictGet(els_lineage_data, LastCf.s_name)
          IN  /\ Len(els) = Len(TaxRank)
              /\ \A i \in 1..Len(els) :
                    els[i].v = IF els[i].k = "root" THEN Rat(100, 1) ELSE RatZero

(***************************************************************************)
(* What the claims say about a recurring header                            *)
(***************************************************************************)
LastHeader == SetMax(HeaderLines)
\* the text from the last header line on
FromLastHeader == SubSeq(cf_content, LastHeader, Len(cf_content))
OfLastOccurrence ==
    CASE cf_call[1] = "extract_t5" -> extract_t5(FromLastHeader, cf_call[2])
      [] cf_call[1] = "extract_kingdom" -> extract_kingdom(FromLastHeader)
      [] OTHER -> extract_lineage(FromLastHeader, cf_call[2])

\* C19: when the header prefix occurs several times, what an extractor returns
\* is made of the rows captured after the last occurrence alone, also when
\* fewer than three lines follow it: the result is the one the text from the
\* last header line on gives by itself.
C19_LastOccurrenceWins ==
    (/\ ExtractorCalled
     /\ Cardinality(HeaderLines) >= 2
     /\ cf_out.status = "returned")
    => cf_out = OfLastOccurrence

(***************************************************************************)
(* What the claims say about a sample's barcode                            *)
(***************************************************************************)
RECURSIVE FirstNonEmpty(_)
FirstNonEmpty(ims) ==
    IF ims = <<>> THEN ""
    ELSE IF Head(ims).IndexSequence # "" THEN Head(ims).IndexSequence
    ELSE FirstNonEmpty(Tail(ims))
\* the DemuxResults entries of cr that no later entry of cr repeats the sample of
LastOfSample(cr) ==
    {j \in 1..Len(cr.DemuxResults) :
        \A k \in (j + 1)..Len(cr.DemuxResults) :
            cr.DemuxResults[k].SampleName # cr.DemuxResults[j].SampleName}

\* C20: after parsing, the barcode of a sample is the first non-empty
\* IndexSequence among its IndexMetrics entries, and "" when it has none.
C20_BarcodeFirstNonEmpty ==
    \A i \in LastEntries :
        LET cr == Entries[i].cr
        IN  HasLaneRec(Entries[i].run, cr.LaneNumber) =>
              \A j \in LastOfSample(cr) :
                 LET d == cr.DemuxResults[j]
                 IN  DictGet(LaneRec(Entries[i].run, cr.LaneNumber).samples,
                             d.SampleName).barcode
                       = IF d.hasIndexMetrics THEN FirstNonEmpty(d.IndexMetrics) ELSE ""

(***************************************************************************)
(* What the claims say about the KAT triggers                              *)
(***************************************************************************)
HasTrigger(h) ==
    \E i \in 1..Len(kat_content) : KatStartsWith(KatStrip(kat_content[i]), h)

\* C21: the three triggers are detected independently: when parse_kat_report
\* returns, every trigger some line of the input starts with has set its
\* section's fields, wherever the lines of the other triggers are.
C21_TriggersIndependent ==
    (KatCalled /\ kat_out.err = "")
    => /\ HasTrigger(KmerTrigger) => KatHas("kmer_peaks") /\ KatHas("mean_kmer_freq")
       /\ HasTrigger(EstTrigger) => KatHas("est_genome_size")
       /\ HasTrigger(GcTrigger) => KatHas("gc_peaks")

(***************************************************************************)
(* What the claims say about files of the same sample name                 *)
(***************************************************************************)
\* the files of kat_parsed that repeat the sample name of an earlier one
KatOverwrites ==
    {j \in 1..Len(kat_parsed) :
        \E i \in 1..(j - 1) : kat_parsed[i].s_name = kat_parsed[j].s_name}
\* the files no later file repeats the sample name of
KatLatest ==
    {j \in 1..Len(kat_parsed) :
        \A k \in (j + 1)..Len(kat_parsed) : kat_parsed[k].s_name # kat_parsed[j].s_name}

\* C22: when two files yield the same sample name, the mapping holds the later
\* file's record only, and a diagnostic is emitted for each overwrite.
C22_LaterFileOverwrites ==
    (kat_pc = "parse" /\ KatOverwrites # {})
    => /\ Len(kat_data) = Cardinality(KatLatest)
       /\ \A j \in KatLatest :
             /\ DictHas(kat_data, kat_parsed[j].s_name)
             /\ DictGet(kat_data, kat_parsed[j].s_name)
                  = parse_kat_report(kat_parsed[j].content).val
       /\ Len(log) >= Cardinality(KatOverwrites)

(***************************************************************************)
(* What the claims say about the order of the files                        *)
(***************************************************************************)
Perms(n) == {p \in [1..n -> 1..n] : \A i, j \in 1..n : p[i] = p[j] => i = j}
AsSet(d) == {d[i] : i \in 1..Len(d)}

\* parse_file_as_json on the files of parsed in the order p, from the k-th on;
\* R = [data, err]
RECURSIVE ParseInOrder(_, _, _)
ParseInOrder(p, k, R) ==
    IF k > Len(parsed) \/ R.err # "" THEN R
    ELSE ParseInOrder(p, k + 1,
            CHOOSE x \in {[data |-> r.data, err |-> r.err] :
                            r \in {parse_file_as_json(R.data, <<>>,
                                       [f |-> parsed[p[k]], fn |-> p[k]])}} : TRUE)

\* what __init__ has after the fold when find_log_files yields the files in the
\* order p: the exception, or the per-lane and per-sample mappings
NoMappings(err) == [err |-> err, bylane |-> {}, bysample |-> {}]
OutcomeOfSplit(S) ==
    IF S.err # "" THEN NoMappings(S.err)
    ELSE [err |-> "", bylane |-> AsSet(S.bylane), bysample |-> AsSet(S.bysample)]
OutcomeInOrder(p) ==
    LET R == ParseInOrder(p, 1, [data |-> <<>>, err |-> ""])
    IN  IF R.err # "" THEN NoMappings(R.err)
        ELSE OutcomeOfSplit(split_data_by_lane_and_sample(R.data))

\* C23: the finished per-lane and per-sample mappings do not depend on the
\* order of the files: when the fold has returned, every permutation of the
\* files parsed gives the same two mappings.
C23_OrderIndependent ==
    pc = "split" =>
        \A p \in Perms(Len(parsed)) :
            OutcomeInOrder(p) = [err |-> "", bylane |-> AsSet(bcl2fastq_bylane),
                                 bysample |-> AsSet(bcl2fastq_bysample)]

(***************************************************************************)
(* What the claims say about the per-lane counts of a sample               *)
(***************************************************************************)
\* the sum of the read counts bysample_lane holds for sample s
PerLaneSum(s) ==
    LET perLane == DictGet(bcl2fastq_bysample_lane, s)
    IN  SeqSum([i \in 1..Len(perLane) |-> perLane[i].v])

\* C24: after the fold, for every sample s the per-lane read counts of
\* bysample_lane[s] sum to bysample[s].total, also when the same lane number
\* occurs in several runs.  (Stated for inputs that report unknown barcodes for
\* every lane.)
C24_PerLaneCountsSum ==
    (SplitCalled /\ AllLanesHaveSlots /\ SampleNames # {})
    => /\ pc = "split"
       /\ \A s \in SampleNames :
             /\ DictHas(bcl2fastq_bysample, s)
             /\ DictHas(bcl2fastq_bysample_lane, s)
             /\ PerLaneSum(s) = DictGet(bcl2fastq_bysample, s).total

(***************************************************************************)
(* What the claims say about a lane's totals                               *)
(***************************************************************************)
\* the sum of F over the samples recorded in lane L, "undetermined" left out
OverSamples(L, F(_)) ==
    SeqSum([i \in 1..Len(L.samples) |->
        IF L.samples[i].k = "undetermined" THEN 0 ELSE F(L.samples[i].v)])

\* C25: after parse_file_as_json each lane's total, total_yield, perfectIndex,
\* yieldQ30 and qscore_sum equal the sum of that field over the lane's recorded
\* samples other than "undetermined", also when a sample name is repeated
\* within the lane's DemuxResults.
C25_LaneTotalsAreSampleSums ==
    \A rl \in AllLaneRecs :
        LET L == LaneAt(rl).v
        IN  /\ L.total = OverSamples(L, FTotal)
            /\ L.total_yield = OverSamples(L, FTotalYield)
            /\ L.perfectIndex = OverSamples(L, FPerfectIndex)
            /\ L.yieldQ30 = OverSamples(L, FYieldQ30)
            /\ L.qscore_sum = OverSamples(L, FQscoreSum)

====
